---------------------------- MODULE Spec2Model ----------------------------
(***************************************************************************)
(* Model of the Stagehand Chrome extension service worker                  *)
(* (src/chrome_extension/background.js): the relay between the Python      *)
(* WebSocket server and the chrome.debugger / chrome.tabs APIs.            *)
(*                                                                         *)
(* The service worker is single threaded.  One action of the model is one  *)
(* task of its event loop: the synchronous run of a callback up to the     *)
(* next await of a chrome API call.  A chrome API call is split in two:    *)
(* the task that issues it, and the task in which the browser has carried  *)
(* it out and the awaiting handler continues.  Awaits of promises that are *)
(* already settled (the return of an async function) only yield to         *)
(* microtasks and are folded into the task that reaches them.              *)
(*                                                                         *)
(* The browser delivers its events (chrome.debugger.onDetach,              *)
(* chrome.tabs.onRemoved) and the results of API calls in the order in     *)
(* which it produced them: browserQ holds the events not yet handled, and  *)
(* a call settles only once the events before it have been handled.        *)
(*                                                                         *)
(* req and sent are histories: req keeps the frame of every run of         *)
(* handleServerMessage with the chrome.debugger calls it made, sent every  *)
(* message passed to serverWs.send with the socket it went out on,         *)
(* scheduled the delays given to setTimeout since the last onopen.         *)
(***************************************************************************)
EXTENDS Naturals, Integers, Sequences, FiniteSets, TLC

\* ------------------------------------------------------------------ bounds
MaxRequests == 3      \* messages, in the runs of the session machine
MaxEvents == 2        \* CDP events the browser emits
MaxSockets == 2       \* WebSocket objects connectToServer creates
MaxSubRequests == 3   \* messages, in the runs of the event multiplexer
MaxConnRequests == 2  \* messages, in the runs of the connection
MaxCommandRequests == 3  \* messages, in the runs of the command relay
MaxRoundTripRequests == 5  \* messages, in the runs of the round trip
MaxOwnerRequests == 3  \* messages, in the runs of the owners
MaxProtocolMessages == 3  \* messages, in the runs of the protocol
MaxPings == 2         \* PINGs the keepalive sends
MaxReconnectSockets == 6  \* WebSocket objects, in the runs of the reconnect loop
MaxRegistryRequests == 3  \* messages, in the runs of the registry
MaxCloseRequests == 4     \* messages, in the runs that close tabs
MaxDriverRequests == 3    \* requests the driver issues
MaxDriverMessages == 3    \* messages the driver's receiver task takes
MaxForwardRequests == 5   \* messages, in the runs of forwarding
MaxForwardEvents == 2     \* CDP events, in the runs of forwarding
MaxNavigateRequests == 3  \* messages, in the runs of navigation
MaxIsolationRequests == 3 \* messages, in the runs of the two tabs

\* ------------------------------------------------------- program constants
MAX_RECONNECT_ATTEMPTS == 5

\* ----------------------------------------------------------- input domains
Tabs == {1, 2}
EventNames == {"load", "paint"}
ListenerIds == {1, 2}
Methods == {"Page.enable", "DOM.getDocument"}

VARIABLES
  \* --- the browser (environment)
  tabOpen,            \* [Tabs -> BOOLEAN]: the tab exists
  dbgOwner,           \* [Tabs -> {"none","self","other"}]: who debugs the tab
  browserQ,           \* events the browser has dispatched, not yet handled
  onEventListeners,   \* the closures added to chrome.debugger.onEvent: the tabId each captured
  \* --- the extension's globals
  serverWs,           \* 0 (null) or the index of a socket
  reconnectAttempts,
  activeSessions,     \* tabId -> [attached, listeners]  (a Map: partial)
  cdpEventListeners,  \* tabId -> (eventName -> set of listenerId)
  \* --- sockets and timers
  sockets,            \* readyState of every WebSocket created so far
  timers,             \* pending setTimeout(connectToServer, delay)
  scheduled,          \* the delays passed to setTimeout since the last onopen
  \* --- handlers and history
  req,                \* one record per message received: the handler's frame
  sent,               \* messages handed to serverWs.send, in order
  emitted,            \* CDP events the browser has emitted, in order
  \* --- the driver's WebSocketManager
  pending_responses,  \* msg_id -> the future waiting for its response
  futures,            \* every future created: pending, or its result
  received,           \* the messages the receiver task has taken, in order
  callbacks,          \* the params handed to event handlers, in order
  \* --- navigation
  nav,                \* per tab: the state of its navigation in the browser
  navListeners        \* the runs whose webNavigation.onCompleted listener is registered

vars == <<tabOpen, dbgOwner, browserQ, onEventListeners, serverWs,
          reconnectAttempts, activeSessions, cdpEventListeners, sockets,
          timers, scheduled, req, sent, emitted,
          pending_responses, futures, received, callbacks,
          nav, navListeners>>

browserVars == <<tabOpen, dbgOwner, browserQ>>
connVars == <<serverWs, reconnectAttempts, sockets, timers, scheduled>>
sessionVars == <<activeSessions, cdpEventListeners, onEventListeners>>
driverVars == <<pending_responses, futures, received, callbacks>>
navVars == <<nav, navListeners>>
agentVars == <<tabOpen, dbgOwner, browserQ, onEventListeners, serverWs,
                reconnectAttempts, activeSessions, cdpEventListeners, sockets,
                timers, scheduled, req, sent, emitted, nav, navListeners>>

\* ------------------------------------------------------------------ values
NoResult == [kind |-> "", tab |-> 0, name |-> ""]
Result(k) == [kind |-> k, tab |-> 0, name |-> ""]

\* A message handed to the socket.  Fields a message type does not carry
\* hold 0, "" or NoResult.
Message(ty, id, tab, method, ok, result) ==
  [type |-> ty, id |-> id, tabId |-> tab, method |-> method,
   success |-> ok, result |-> result, params |-> 0, sock |-> 0]

\* ------------------------------------------------------------ sendToServer
\* background.js 73-79: send on the socket serverWs refers to if it is OPEN,
\* otherwise log and drop.  ws and socks are the values of serverWs and of
\* the sockets' readyState at the moment of the call.
send(ws, socks, log, message) ==
  IF ws # 0 /\ socks[ws] = "OPEN"
    THEN Append(log, [message EXCEPT !.sock = ws])
    ELSE log

sendToServer(log, message) == send(serverWs, sockets, log, message)

\* ------------------------------------------------------------- Map helpers
has(map, k) == k \in DOMAIN map
set(map, k, v) == [x \in (DOMAIN map) \cup {k} |-> IF x = k THEN v ELSE map[x]]
delete(map, k) == [x \in (DOMAIN map) \ {k} |-> map[x]]
EmptyMap == [x \in {} |-> 0]

\* The test of attachDebugger (194), detachDebugger (220), sendCDPCommand (241)
isAttached(tabId) ==
  has(activeSessions, tabId) /\ activeSessions[tabId].attached

\* ------------------------------------------------------------------- Init
\* The state once the script has run to its end: line 499 has called
\* connectToServer, so one socket exists and is CONNECTING.
Init ==
  /\ tabOpen = [t \in Tabs |-> TRUE]
  /\ dbgOwner = [t \in Tabs |-> "none"]
  /\ browserQ = <<>>
  /\ onEventListeners = <<>>
  /\ serverWs = 1
  /\ reconnectAttempts = 0
  /\ activeSessions = EmptyMap
  /\ cdpEventListeners = EmptyMap
  /\ sockets = <<"CONNECTING">>
  /\ timers = <<>>
  /\ scheduled = <<>>
  /\ req = <<>>
  /\ sent = <<>>
  /\ emitted = <<>>
  /\ pending_responses = EmptyMap
  /\ futures = EmptyMap
  /\ received = <<>>
  /\ callbacks = <<>>
  /\ nav = [t \in Tabs |-> "idle"]
  /\ navListeners = {}

\* ------------------------------------------------------ connection lifecycle
Min(a, b) == IF a < b THEN a ELSE b

RECURSIVE Pow2(_)
Pow2(n) == IF n = 0 THEN 1 ELSE 2 * Pow2(n - 1)

\* A delay that doubles without a cap.
reconnectDelayUncapped(attempts) == 1000 * Pow2(attempts)

\* line 62
reconnectDelay(attempts) == Min(1000 * Pow2(attempts), 10000)

\* connectToServer, lines 21-30: nothing when serverWs is OPEN or CONNECTING,
\* else a new WebSocket replaces serverWs.
mustConnect == ~(serverWs # 0 /\ sockets[serverWs] \in {"OPEN", "CONNECTING"})

connectToServer ==
  IF mustConnect
    THEN /\ sockets' = Append(sockets, "CONNECTING")
         /\ serverWs' = Len(sockets) + 1
    ELSE UNCHANGED <<sockets, serverWs>>

\* serverWs.onopen without line 33: reconnectAttempts keeps its value.
SocketOpenKeepsAttempts(s) ==
  /\ sockets[s] = "CONNECTING"
  /\ sockets' = [sockets EXCEPT ![s] = "OPEN"]
  /\ sent' = send(serverWs, sockets', sent,
                  Message("EXTENSION_READY", 0, 0, "", FALSE, NoResult))
  /\ UNCHANGED <<serverWs, reconnectAttempts, timers, scheduled, req, emitted, driverVars, navVars,
                 tabOpen, dbgOwner, browserQ, activeSessions,
                 cdpEventListeners, onEventListeners>>

\* serverWs.onopen without line 36: no EXTENSION_READY is sent.
SocketOpenSilent(s) ==
  /\ sockets[s] = "CONNECTING"
  /\ sockets' = [sockets EXCEPT ![s] = "OPEN"]
  /\ reconnectAttempts' = 0
  /\ scheduled' = <<>>
  /\ UNCHANGED <<serverWs, timers, req, sent, emitted, driverVars, navVars, tabOpen, dbgOwner,
                 browserQ, activeSessions, cdpEventListeners, onEventListeners>>

\* serverWs.onopen, lines 31-40, of socket s
SocketOpen(s) ==
  /\ sockets[s] = "CONNECTING"
  /\ sockets' = [sockets EXCEPT ![s] = "OPEN"]
  /\ reconnectAttempts' = 0
  /\ scheduled' = <<>>
  /\ sent' = send(serverWs, sockets', sent,
                  Message("EXTENSION_READY", 0, 0, "", FALSE, NoResult))
  /\ UNCHANGED <<serverWs, timers, req, emitted, driverVars, navVars>>
  /\ UNCHANGED browserVars
  /\ UNCHANGED sessionVars

\* The server starts the closing handshake: readyState CLOSING until the
\* close event.
SocketClosing(s) ==
  /\ sockets[s] = "OPEN"
  /\ sockets' = [sockets EXCEPT ![s] = "CLOSING"]
  /\ UNCHANGED <<serverWs, reconnectAttempts, timers, scheduled, req, sent, emitted, driverVars, navVars>>
  /\ UNCHANGED browserVars
  /\ UNCHANGED sessionVars

\* serverWs.onclose without the test of line 60: it always schedules a
\* reconnect.
SocketCloseUnbounded(s) ==
  /\ sockets[s] # "CLOSED"
  /\ sockets' = [sockets EXCEPT ![s] = "CLOSED"]
  /\ serverWs' = 0
  /\ reconnectAttempts' = reconnectAttempts + 1
  /\ timers' = Append(timers, reconnectDelay(reconnectAttempts'))
  /\ scheduled' = Append(scheduled, reconnectDelay(reconnectAttempts'))
  /\ UNCHANGED <<req, sent, emitted, driverVars, navVars, tabOpen, dbgOwner, browserQ,
                 activeSessions, cdpEventListeners, onEventListeners>>

\* serverWs.onclose, lines 55-66, of socket s (a failed connect included)
SocketClose(s) ==
  /\ sockets[s] # "CLOSED"
  /\ sockets' = [sockets EXCEPT ![s] = "CLOSED"]
  /\ serverWs' = 0
  /\ IF reconnectAttempts < MAX_RECONNECT_ATTEMPTS
       THEN /\ reconnectAttempts' = reconnectAttempts + 1
            /\ timers' = Append(timers, reconnectDelay(reconnectAttempts'))
            /\ scheduled' = Append(scheduled, reconnectDelay(reconnectAttempts'))
       ELSE UNCHANGED <<reconnectAttempts, timers, scheduled>>
  /\ UNCHANGED <<req, sent, emitted, driverVars, navVars>>
  /\ UNCHANGED browserVars
  /\ UNCHANGED sessionVars

RemoveAt(seq, k) == SubSeq(seq, 1, k - 1) \o SubSeq(seq, k + 1, Len(seq))

\* A reconnect timer set at line 64 fires and runs connectToServer.
TimerFire(k) ==
  /\ k \in DOMAIN timers
  /\ timers' = RemoveAt(timers, k)
  /\ connectToServer
  /\ UNCHANGED <<reconnectAttempts, scheduled, req, sent, emitted, driverVars, navVars>>
  /\ UNCHANGED browserVars
  /\ UNCHANGED sessionVars

\* chrome.runtime.onStartup (502-505) runs connectToServer.
Startup ==
  /\ connectToServer
  /\ UNCHANGED <<reconnectAttempts, timers, scheduled, req, sent, emitted, driverVars, navVars>>
  /\ UNCHANGED browserVars
  /\ UNCHANGED sessionVars

\* --------------------------------------------------------- request handlers
\* The frame of one run of handleServerMessage (82-175): the fields of the
\* message, the socket it came in on, where the run is suspended (pc), how
\* it ended, and the chrome.debugger calls it has made.
Frame(id, ty, tab, name, lid, s) ==
  [id |-> id, type |-> ty, tabId |-> tab, name |-> name, lid |-> lid,
   sock |-> s, pc |-> "start", ok |-> FALSE, result |-> NoResult,
   attachCalls |-> 0, detachCalls |-> 0, cmds |-> <<>>]

\* The id the server gives its next request: ids are unique per connection.
nextId == Len(req) + 1

\* serverWs.onmessage (42-49) of socket s runs for a message the open socket
\* delivers.
canReceive(s) == s \in DOMAIN sockets /\ sockets[s] = "OPEN"

\* A response that takes its id from a variable shared by all runs: the id of
\* the message received last.
responseSharedId(f, ok, result) == Message("RESPONSE", Len(req'), 0, "", ok, result)

\* lines 157-163 and 165-173: the RESPONSE of a run, built from the run's own
\* id and result.
response(f, ok, result) == Message("RESPONSE", f.id, 0, "", ok, result)

\* The run f ends: its frame is closed and its response handed to sendToServer.
finish(f, ok, result) ==
  [f EXCEPT !.pc = "done", !.ok = ok, !.result = result]

\* setupCDPEventForwarding, lines 261-285, on the session table and the list
\* of chrome.debugger.onEvent listeners.
forwardingSessions(sessions, tabId) ==
  LET s1 == IF has(sessions, tabId) THEN sessions
            ELSE set(sessions, tabId, [attached |-> TRUE, listeners |-> 0])
  IN  [s1 EXCEPT ![tabId].listeners = @ + 1]

forwardingListeners(listeners, tabId) == Append(listeners, tabId)

\* attachDebugger after its await, lines 200-210
attachedSessions(sessions, tabId) ==
  forwardingSessions(set(sessions, tabId, [attached |-> TRUE, listeners |-> 0]), tabId)

\* chrome.debugger.attach succeeds on an open tab no debugger is attached to.
browserCanAttach(tabId) == tabOpen[tabId] /\ dbgOwner[tabId] = "none"
attachError(tabId) == IF tabOpen[tabId] THEN "Another debugger is already attached"
                      ELSE "No tab with given id"
\* chrome.debugger.detach and sendCommand need this extension's attachment.
browserIsOurs(tabId) == tabOpen[tabId] /\ dbgOwner[tabId] = "self"
notOursError(tabId) == IF tabOpen[tabId] THEN "Debugger is not attached to the tab"
                       ELSE "No tab with given id"

\* attachDebugger without the test of line 194: it always calls the browser.
RecvAttachUnchecked(s, tab) ==
  /\ s \in DOMAIN sockets /\ sockets[s] = "OPEN"
  /\ req' = Append(req, [Frame(Len(req) + 1, "ATTACH_DEBUGGER", tab, "", 0, s)
                           EXCEPT !.pc = "attach", !.attachCalls = 1])
  /\ UNCHANGED <<sent, emitted, driverVars, navVars, tabOpen, dbgOwner, browserQ, serverWs,
                 reconnectAttempts, sockets, timers, scheduled, activeSessions,
                 cdpEventListeners, onEventListeners>>

\* ATTACH_DEBUGGER arrives (93-95): attachDebugger up to its await (191-199).
RecvAttach(s, tab) ==
  /\ canReceive(s)
  /\   LET f == Frame(nextId, "ATTACH_DEBUGGER", tab, "", 0, s) IN
       IF isAttached(tab)
         THEN /\ req' = Append(req, finish(f, TRUE, Result("alreadyAttached")))
              /\ sent' = sendToServer(sent, response(f, TRUE, Result("alreadyAttached")))
         ELSE /\ req' = Append(req, [f EXCEPT !.pc = "attach", !.attachCalls = 1])
              /\ sent' = sent
  /\ UNCHANGED <<emitted, driverVars, navVars>>
  /\ UNCHANGED browserVars
  /\ UNCHANGED connVars
  /\ UNCHANGED sessionVars

\* attachDebugger that records the session whether or not
\* chrome.debugger.attach succeeded.
AttachDoneRecordsFailure(i) ==
  /\ i \in DOMAIN req
  /\ req[i].pc = "attach"
  /\ browserQ = <<>>
  /\ LET f == req[i]
         tab == f.tabId
     IN /\ activeSessions' = attachedSessions(activeSessions, tab)
        /\ onEventListeners' = forwardingListeners(onEventListeners, tab)
        /\ IF browserCanAttach(tab)
             THEN /\ dbgOwner' = [dbgOwner EXCEPT ![tab] = "self"]
                  /\ req' = [req EXCEPT ![i] = finish(f, TRUE, Result("attached"))]
                  /\ sent' = sendToServer(sent, response(f, TRUE, Result("attached")))
             ELSE /\ dbgOwner' = dbgOwner
                  /\ req' = [req EXCEPT ![i] = finish(f, FALSE, Result(attachError(tab)))]
                  /\ sent' = sendToServer(sent, response(f, FALSE, Result(attachError(tab))))
  /\ UNCHANGED <<tabOpen, browserQ, cdpEventListeners, emitted, driverVars, navVars,
                 serverWs, reconnectAttempts, sockets, timers, scheduled>>

\* chrome.debugger.attach of run i settles and the run continues: lines
\* 199-214 for ATTACH_DEBUGGER, and on to 245-251 for CDP_COMMAND.
AttachDone(i) ==
  /\ i \in DOMAIN req
  /\ req[i].pc = "attach"
  /\ browserQ = <<>>
  /\ LET f == req[i]
         tab == f.tabId
     IN IF browserCanAttach(tab)
          THEN /\ dbgOwner' = [dbgOwner EXCEPT ![tab] = "self"]
               /\ activeSessions' = attachedSessions(activeSessions, tab)
               /\ onEventListeners' = forwardingListeners(onEventListeners, tab)
               /\ IF f.type = "CDP_COMMAND"
                    THEN /\ req' = [req EXCEPT ![i] =
                                     [f EXCEPT !.pc = "sendCommand",
                                               !.cmds = Append(@, [tabId |-> tab, method |-> f.name])]]
                         /\ sent' = sent
                    ELSE /\ req' = [req EXCEPT ![i] = finish(f, TRUE, Result("attached"))]
                         /\ sent' = sendToServer(sent, response(f, TRUE, Result("attached")))
          ELSE /\ req' = [req EXCEPT ![i] = finish(f, FALSE, Result(attachError(tab)))]
               /\ sent' = sendToServer(sent, response(f, FALSE, Result(attachError(tab))))
               /\ UNCHANGED <<dbgOwner, activeSessions, onEventListeners>>
  /\ UNCHANGED <<tabOpen, browserQ, cdpEventListeners, emitted, driverVars, navVars>>
  /\ UNCHANGED connVars

\* detachDebugger without the test of line 220: it always calls the browser.
RecvDetachUnchecked(s, tab) ==
  /\ s \in DOMAIN sockets /\ sockets[s] = "OPEN"
  /\ req' = Append(req, [Frame(Len(req) + 1, "DETACH_DEBUGGER", tab, "", 0, s)
                           EXCEPT !.pc = "detach", !.detachCalls = 1])
  /\ UNCHANGED <<sent, emitted, driverVars, navVars, tabOpen, dbgOwner, browserQ, serverWs,
                 reconnectAttempts, sockets, timers, scheduled, activeSessions,
                 cdpEventListeners, onEventListeners>>

\* DETACH_DEBUGGER arrives (97-99): detachDebugger up to its await (218-224).
RecvDetach(s, tab) ==
  /\ canReceive(s)
  /\   LET f == Frame(nextId, "DETACH_DEBUGGER", tab, "", 0, s) IN
       IF ~isAttached(tab)
         THEN /\ req' = Append(req, finish(f, TRUE, Result("Not attached")))
              /\ sent' = sendToServer(sent, response(f, TRUE, Result("Not attached")))
         ELSE /\ req' = Append(req, [f EXCEPT !.pc = "detach", !.detachCalls = 1])
              /\ sent' = sent
  /\ UNCHANGED <<emitted, driverVars, navVars>>
  /\ UNCHANGED browserVars
  /\ UNCHANGED connVars
  /\ UNCHANGED sessionVars

\* detachDebugger without line 228: the subscriptions of the tab stay.
DetachDoneKeepsListeners(i) ==
  /\ i \in DOMAIN req
  /\ req[i].pc = "detach"
  /\ browserQ = <<>>
  /\ LET f == req[i]
         tab == f.tabId
     IN IF browserIsOurs(tab)
          THEN /\ dbgOwner' = [dbgOwner EXCEPT ![tab] = "none"]
               /\ activeSessions' = delete(activeSessions, tab)
               /\ req' = [req EXCEPT ![i] = finish(f, TRUE, Result("detached"))]
               /\ sent' = sendToServer(sent, response(f, TRUE, Result("detached")))
          ELSE /\ req' = [req EXCEPT ![i] = finish(f, FALSE, Result(notOursError(tab)))]
               /\ sent' = sendToServer(sent, response(f, FALSE, Result(notOursError(tab))))
               /\ UNCHANGED <<dbgOwner, activeSessions>>
  /\ UNCHANGED <<tabOpen, browserQ, onEventListeners, emitted, driverVars, navVars, cdpEventListeners,
                 serverWs, reconnectAttempts, sockets, timers, scheduled>>

\* detachDebugger without line 227: the session of the tab stays recorded.
DetachDoneKeepsSession(i) ==
  /\ i \in DOMAIN req
  /\ req[i].pc = "detach"
  /\ browserQ = <<>>
  /\ LET f == req[i]
         tab == f.tabId
     IN IF browserIsOurs(tab)
          THEN /\ dbgOwner' = [dbgOwner EXCEPT ![tab] = "none"]
               /\ cdpEventListeners' = delete(cdpEventListeners, tab)
               /\ req' = [req EXCEPT ![i] = finish(f, TRUE, Result("detached"))]
               /\ sent' = sendToServer(sent, response(f, TRUE, Result("detached")))
          ELSE /\ req' = [req EXCEPT ![i] = finish(f, FALSE, Result(notOursError(tab)))]
               /\ sent' = sendToServer(sent, response(f, FALSE, Result(notOursError(tab))))
               /\ UNCHANGED <<dbgOwner, cdpEventListeners>>
  /\ UNCHANGED <<tabOpen, browserQ, onEventListeners, emitted, driverVars, navVars, activeSessions,
                 serverWs, reconnectAttempts, sockets, timers, scheduled>>

\* detachDebugger that cleans up whether or not chrome.debugger.detach
\* succeeded (lines 227-228 moved to a finally block).
DetachDoneAlwaysCleans(i) ==
  /\ i \in DOMAIN req
  /\ req[i].pc = "detach"
  /\ browserQ = <<>>
  /\ LET f == req[i]
         tab == f.tabId
     IN /\ activeSessions' = delete(activeSessions, tab)
        /\ cdpEventListeners' = delete(cdpEventListeners, tab)
        /\ IF browserIsOurs(tab)
             THEN /\ dbgOwner' = [dbgOwner EXCEPT ![tab] = "none"]
                  /\ req' = [req EXCEPT ![i] = finish(f, TRUE, Result("detached"))]
                  /\ sent' = sendToServer(sent, response(f, TRUE, Result("detached")))
             ELSE /\ req' = [req EXCEPT ![i] = finish(f, FALSE, Result(notOursError(tab)))]
                  /\ sent' = sendToServer(sent, response(f, FALSE, Result(notOursError(tab))))
                  /\ dbgOwner' = dbgOwner
  /\ UNCHANGED <<tabOpen, browserQ, onEventListeners, emitted, driverVars, navVars,
                 serverWs, reconnectAttempts, sockets, timers, scheduled>>

\* chrome.debugger.detach of run i settles and the run continues (224-234).
DetachDone(i) ==
  /\ i \in DOMAIN req
  /\ req[i].pc = "detach"
  /\ browserQ = <<>>
  /\ LET f == req[i]
         tab == f.tabId
     IN IF browserIsOurs(tab)
          THEN /\ dbgOwner' = [dbgOwner EXCEPT ![tab] = "none"]
               /\ activeSessions' = delete(activeSessions, tab)
               /\ cdpEventListeners' = delete(cdpEventListeners, tab)
               /\ req' = [req EXCEPT ![i] = finish(f, TRUE, Result("detached"))]
               /\ sent' = sendToServer(sent, response(f, TRUE, Result("detached")))
          ELSE /\ req' = [req EXCEPT ![i] = finish(f, FALSE, Result(notOursError(tab)))]
               /\ sent' = sendToServer(sent, response(f, FALSE, Result(notOursError(tab))))
               /\ UNCHANGED <<dbgOwner, activeSessions, cdpEventListeners>>
  /\ UNCHANGED <<tabOpen, browserQ, onEventListeners, emitted, driverVars, navVars>>
  /\ UNCHANGED connVars

\* sendCDPCommand that refuses a tab that is not attached instead of
\* attaching it.
RecvCommandNoAttach(s, tab, method) ==
  /\ s \in DOMAIN sockets /\ sockets[s] = "OPEN"
  /\ LET f == Frame(Len(req) + 1, "CDP_COMMAND", tab, method, 0, s) IN
       IF ~isAttached(tab)
         THEN /\ req' = Append(req, finish(f, FALSE, Result("Debugger is not attached to the tab")))
              /\ sent' = sendToServer(sent, response(f, FALSE, Result("Debugger is not attached to the tab")))
         ELSE /\ req' = Append(req, [f EXCEPT !.pc = "sendCommand",
                                       !.cmds = <<[tabId |-> tab, method |-> method]>>])
              /\ sent' = sent
  /\ UNCHANGED <<emitted, driverVars, navVars, tabOpen, dbgOwner, browserQ, serverWs,
                 reconnectAttempts, sockets, timers, scheduled, activeSessions,
                 cdpEventListeners, onEventListeners>>

\* CDP_COMMAND arrives (101-103): sendCDPCommand up to its first await, which
\* is attachDebugger's (242, 199) when the tab is not attached and
\* chrome.debugger.sendCommand (247) when it is.
RecvCommand(s, tab, method) ==
  /\ canReceive(s)
  /\   LET f == Frame(nextId, "CDP_COMMAND", tab, method, 0, s) IN
       IF ~isAttached(tab)
         THEN req' = Append(req, [f EXCEPT !.pc = "attach", !.attachCalls = 1])
         ELSE req' = Append(req, [f EXCEPT !.pc = "sendCommand",
                                   !.cmds = <<[tabId |-> tab, method |-> method]>>])
  /\ UNCHANGED <<sent, emitted, driverVars, navVars>>
  /\ UNCHANGED browserVars
  /\ UNCHANGED connVars
  /\ UNCHANGED sessionVars

\* What the browser returns for a command: it names the debuggee and the
\* method it ran.
commandResult(call) == [kind |-> "result", tab |-> call.tabId, name |-> call.method]

\* handleServerMessage whose catch block (165-174) logs the error of a failed
\* command and sends nothing.
CommandDoneSwallowsError(i) ==
  /\ i \in DOMAIN req
  /\ req[i].pc = "sendCommand"
  /\ browserQ = <<>>
  /\ LET f == req[i]
         call == f.cmds[Len(f.cmds)]
     IN \/ /\ browserIsOurs(call.tabId)
           /\ req' = [req EXCEPT ![i] = finish(f, TRUE, commandResult(call))]
           /\ sent' = sendToServer(sent, response(f, TRUE, commandResult(call)))
        \/ /\ browserIsOurs(call.tabId)
           /\ req' = [req EXCEPT ![i] = finish(f, FALSE, Result("Command failed"))]
           /\ sent' = sent
        \/ /\ ~browserIsOurs(call.tabId)
           /\ req' = [req EXCEPT ![i] = finish(f, FALSE, Result(notOursError(call.tabId)))]
           /\ sent' = sent
  /\ UNCHANGED <<emitted, driverVars, navVars, tabOpen, dbgOwner, browserQ, serverWs,
                 reconnectAttempts, sockets, timers, scheduled, activeSessions,
                 cdpEventListeners, onEventListeners>>

\* sendCDPCommand that sends the command once more when it failed.
CommandDoneRetry(i) ==
  /\ i \in DOMAIN req
  /\ req[i].pc = "sendCommand"
  /\ browserQ = <<>>
  /\ LET f == req[i]
         call == f.cmds[Len(f.cmds)]
     IN IF browserIsOurs(call.tabId)
          THEN \/ /\ req' = [req EXCEPT ![i] = finish(f, TRUE, commandResult(call))]
                  /\ sent' = sendToServer(sent, response(f, TRUE, commandResult(call)))
               \/ /\ Len(f.cmds) < 2
                  /\ req' = [req EXCEPT ![i].cmds = Append(@, call)]
                  /\ sent' = sent
          ELSE /\ req' = [req EXCEPT ![i] = finish(f, FALSE, Result(notOursError(call.tabId)))]
               /\ sent' = sendToServer(sent, response(f, FALSE, Result(notOursError(call.tabId))))
  /\ UNCHANGED <<emitted, driverVars, navVars, tabOpen, dbgOwner, browserQ, serverWs,
                 reconnectAttempts, sockets, timers, scheduled, activeSessions,
                 cdpEventListeners, onEventListeners>>

\* chrome.debugger.sendCommand of run i settles and the run continues
\* (247-257): with the browser's result, or with the error of the target or
\* of the browser.
CommandDone(i) ==
  /\ i \in DOMAIN req
  /\ req[i].pc = "sendCommand"
  /\ browserQ = <<>>
  /\ LET f == req[i]
         call == f.cmds[Len(f.cmds)]
     IN \/ /\ browserIsOurs(call.tabId)
           /\ req' = [req EXCEPT ![i] = finish(f, TRUE, commandResult(call))]
           /\ sent' = sendToServer(sent, response(f, TRUE, commandResult(call)))
        \/ /\ browserIsOurs(call.tabId)
           /\ req' = [req EXCEPT ![i] = finish(f, FALSE, Result("Command failed"))]
           /\ sent' = sendToServer(sent, response(f, FALSE, Result("Command failed")))
        \/ /\ ~browserIsOurs(call.tabId)
           /\ req' = [req EXCEPT ![i] = finish(f, FALSE, Result(notOursError(call.tabId)))]
           /\ sent' = sendToServer(sent, response(f, FALSE, Result(notOursError(call.tabId))))
  /\ UNCHANGED <<emitted, driverVars, navVars>>
  /\ UNCHANGED browserVars
  /\ UNCHANGED connVars
  /\ UNCHANGED sessionVars

\* ------------------------------------------------- messages without a handler
\* Values of the type field that no case of the switch (87-154) names.
UnknownTypes == {"BOGUS"}

\* What JSON.parse throws (44), caught and logged at 46-48.
SyntaxError == Result("SyntaxError")

\* The error of line 154.
unknownTypeError(type) == Result("Unknown message type: " \o type)

\* A frame that is not JSON arrives: JSON.parse throws before
\* handleServerMessage is called, the catch of onmessage (46-48) logs the
\* error.  The record kept for it has no id and no type.
RecvMalformed(s) ==
  /\ canReceive(s)
  /\ req' = Append(req, finish(Frame(0, "", 0, "", 0, s), FALSE, SyntaxError))
  /\ UNCHANGED <<sent, emitted, driverVars, navVars>>
  /\ UNCHANGED browserVars
  /\ UNCHANGED connVars
  /\ UNCHANGED sessionVars

\* handleServerMessage that closes the connection on a message of unknown
\* type instead of answering it.
RecvUnknownDisconnects(s, type) ==
  /\ s \in DOMAIN sockets /\ sockets[s] = "OPEN"
  /\ req' = Append(req, finish(Frame(Len(req) + 1, type, 0, "", 0, s), FALSE,
                              Result("Unknown message type: " \o type)))
  /\ sockets' = [sockets EXCEPT ![s] = "CLOSING"]
  /\ UNCHANGED <<sent, emitted, driverVars, navVars, tabOpen, dbgOwner, browserQ, serverWs,
                 reconnectAttempts, timers, scheduled, activeSessions,
                 cdpEventListeners, onEventListeners>>

\* A message of a type without a case arrives: the default branch throws
\* (153-154) and the catch block answers with the error (165-173).
RecvUnknown(s, type) ==
  /\ canReceive(s)
  /\   LET f == Frame(nextId, type, 0, "", 0, s) IN
       /\ req' = Append(req, finish(f, FALSE, unknownTypeError(type)))
       /\ sent' = sendToServer(sent, response(f, FALSE, unknownTypeError(type)))
  /\ UNCHANGED <<emitted, driverVars, navVars>>
  /\ UNCHANGED browserVars
  /\ UNCHANGED connVars
  /\ UNCHANGED sessionVars

\* handleServerMessage without the case of lines 149-151: PONG falls to the
\* default branch and is answered with the unknown-type error.
RecvPongUnhandled(s) ==
  /\ canReceive(s)
  /\   LET f == Frame(nextId, "PONG", 0, "", 0, s) IN
       /\ req' = Append(req, finish(f, FALSE, unknownTypeError("PONG")))
       /\ sent' = sendToServer(sent, response(f, FALSE, unknownTypeError("PONG")))
  /\ UNCHANGED <<emitted, driverVars, navVars, tabOpen, dbgOwner, browserQ, serverWs,
                 reconnectAttempts, sockets, timers, scheduled,
                 activeSessions, cdpEventListeners, onEventListeners>>

\* PONG arrives (149-151): the handler returns without a response.
RecvPong(s) ==
  /\ canReceive(s)
  /\ req' = Append(req, finish(Frame(nextId, "PONG", 0, "", 0, s), TRUE, NoResult))
  /\ UNCHANGED <<sent, emitted, driverVars, navVars>>
  /\ UNCHANGED browserVars
  /\ UNCHANGED connVars
  /\ UNCHANGED sessionVars

\* ---------------------------------------------------------------- keepalive
Ping == Message("PING", 0, 0, "", FALSE, NoResult)
Pings == Cardinality({k \in DOMAIN sent : sent[k].type = "PING"})
Pongs == Cardinality({i \in DOMAIN req : req[i].type = "PONG"})

\* A keepalive that takes a PING without a PONG for a lost connection: it
\* closes the socket and schedules a reconnect.
KeepAliveExpectsPong ==
  /\ IF serverWs # 0 /\ sockets[serverWs] = "OPEN"
       THEN IF Pongs < Pings
              THEN /\ sockets' = [sockets EXCEPT ![serverWs] = "CLOSING"]
                   /\ reconnectAttempts' = reconnectAttempts + 1
                   /\ timers' = Append(timers, reconnectDelay(reconnectAttempts'))
                   /\ scheduled' = Append(scheduled, reconnectDelay(reconnectAttempts'))
                   /\ sent' = sent
              ELSE /\ sent' = sendToServer(sent, Ping)
                   /\ UNCHANGED <<sockets, reconnectAttempts, timers, scheduled>>
       ELSE UNCHANGED <<sent, sockets, reconnectAttempts, timers, scheduled>>
  /\ UNCHANGED <<serverWs, req, emitted, driverVars, navVars, tabOpen, dbgOwner, browserQ,
                 activeSessions, cdpEventListeners, onEventListeners>>

\* The callback of setInterval (508-512) runs: a PING if serverWs is OPEN.
KeepAlive ==
  /\ IF serverWs # 0 /\ sockets[serverWs] = "OPEN"
       THEN sent' = sendToServer(sent, Ping)
       ELSE sent' = sent
  /\ UNCHANGED <<req, emitted, driverVars, navVars>>
  /\ UNCHANGED browserVars
  /\ UNCHANGED connVars
  /\ UNCHANGED sessionVars

\* ------------------------------------------------------ subscription registry
\* registerCDPListener, lines 288-302, on the registry
registerCDPListener(registry, tabId, eventName, listenerId) ==
  LET r1 == IF has(registry, tabId) THEN registry ELSE set(registry, tabId, EmptyMap)
      t1 == IF has(r1[tabId], eventName) THEN r1[tabId]
            ELSE set(r1[tabId], eventName, {})
  IN  set(r1, tabId, set(t1, eventName, t1[eventName] \cup {listenerId}))

\* unregisterCDPListener that removes the whole entry of the event name.
unregisterCDPListenerDropsEvent(registry, tabId, eventName, listenerId) ==
  IF tabId \in DOMAIN registry /\ eventName \in DOMAIN registry[tabId]
    THEN [registry EXCEPT ![tabId] =
            [e \in (DOMAIN registry[tabId]) \ {eventName} |-> registry[tabId][e]]]
    ELSE registry

\* unregisterCDPListener without lines 311-313: the entry of an event name
\* stays when its last listener id is deleted.
unregisterCDPListenerKeepsEmpty(registry, tabId, eventName, listenerId) ==
  IF tabId \in DOMAIN registry /\ eventName \in DOMAIN registry[tabId]
    THEN [registry EXCEPT ![tabId][eventName] = @ \ {listenerId}]
    ELSE registry

\* unregisterCDPListener, lines 305-317, on the registry
unregisterCDPListener(registry, tabId, eventName, listenerId) ==
  IF has(registry, tabId) /\ has(registry[tabId], eventName)
    THEN LET ids == registry[tabId][eventName] \ {listenerId}
         IN  IF ids = {}
               THEN set(registry, tabId, delete(registry[tabId], eventName))
               ELSE set(registry, tabId, set(registry[tabId], eventName, ids))
    ELSE registry

\* registerCDPListener over a buffer of past events: a new subscription is
\* sent the last event of its tab and event name.
RecvRegisterReplays(s, tab, ev, lid) ==
  /\ s \in DOMAIN sockets /\ sockets[s] = "OPEN"
  /\ LET f == Frame(Len(req) + 1, "REGISTER_CDP_LISTENER", tab, ev, lid, s)
         past == {k \in DOMAIN emitted : emitted[k].tabId = tab /\ emitted[k].method = ev}
         answered == sendToServer(sent, response(f, TRUE, Result("registered")))
     IN
       /\ cdpEventListeners' = registerCDPListener(cdpEventListeners, tab, ev, lid)
       /\ req' = Append(req, finish(f, TRUE, Result("registered")))
       /\ sent' = IF past = {} THEN answered
                  ELSE LET k == CHOOSE x \in past : \A y \in past : y <= x
                       IN sendToServer(answered,
                            [Message("CDP_EVENT", 0, tab, ev, FALSE, NoResult)
                               EXCEPT !.params = emitted[k].params])
  /\ UNCHANGED <<activeSessions, onEventListeners, emitted, driverVars, navVars, tabOpen, dbgOwner,
                 browserQ, serverWs, reconnectAttempts, sockets, timers, scheduled>>

\* REGISTER_CDP_LISTENER arrives (141-143): the handler has no await.
RecvRegister(s, tab, ev, lid) ==
  /\ canReceive(s)
  /\   LET f == Frame(nextId, "REGISTER_CDP_LISTENER", tab, ev, lid, s) IN
       /\ cdpEventListeners' = registerCDPListener(cdpEventListeners, tab, ev, lid)
       /\ req' = Append(req, finish(f, TRUE, Result("registered")))
       /\ sent' = sendToServer(sent, response(f, TRUE, Result("registered")))
  /\ UNCHANGED <<activeSessions, onEventListeners, emitted, driverVars, navVars>>
  /\ UNCHANGED browserVars
  /\ UNCHANGED connVars

\* UNREGISTER_CDP_LISTENER arrives (145-147): the handler has no await.
RecvUnregister(s, tab, ev, lid) ==
  /\ canReceive(s)
  /\   LET f == Frame(nextId, "UNREGISTER_CDP_LISTENER", tab, ev, lid, s) IN
       /\ cdpEventListeners' = unregisterCDPListener(cdpEventListeners, tab, ev, lid)
       /\ req' = Append(req, finish(f, TRUE, Result("unregistered")))
       /\ sent' = sendToServer(sent, response(f, TRUE, Result("unregistered")))
  /\ UNCHANGED <<activeSessions, onEventListeners, emitted, driverVars, navVars>>
  /\ UNCHANGED browserVars
  /\ UNCHANGED connVars

\* ------------------------------------------------------------- CDP events
\* A forwarding closure that looks for the tab in the registry and not for
\* the event name.
forwardingListenerAnyEvent(log, tabId, src, method, params) ==
  IF src = tabId /\ tabId \in DOMAIN cdpEventListeners
    THEN send(serverWs, sockets, log,
              [type |-> "CDP_EVENT", id |-> 0, tabId |-> tabId, method |-> method,
               success |-> FALSE, result |-> [kind |-> "", tab |-> 0, name |-> ""],
               params |-> params, sock |-> 0])
    ELSE log

\* A forwarding closure that puts its message before those already sent.
forwardingListenerLifo(log, tabId, src, method, params) ==
  IF src = tabId
       /\ has(cdpEventListeners, tabId) /\ has(cdpEventListeners[tabId], method)
       /\ serverWs # 0 /\ sockets[serverWs] = "OPEN"
    THEN <<[Message("CDP_EVENT", 0, tabId, method, FALSE, NoResult)
              EXCEPT !.params = params, !.sock = serverWs]>> \o log
    ELSE log

\* The closure of setupCDPEventForwarding (262-276) that captured tabId, run
\* on an event (source, method, params) of source.tabId = src.
forwardingListener(log, tabId, src, method, params) ==
  IF src = tabId
       /\ has(cdpEventListeners, tabId) /\ has(cdpEventListeners[tabId], method)
    THEN sendToServer(log, [Message("CDP_EVENT", 0, tabId, method, FALSE, NoResult)
                              EXCEPT !.params = params])
    ELSE log

\* chrome.debugger.onEvent runs every listener added to it, in order.
RECURSIVE dispatchEvent(_, _, _, _, _)
dispatchEvent(log, listeners, src, method, params) ==
  IF listeners = <<>> THEN log
  ELSE dispatchEvent(forwardingListener(log, Head(listeners), src, method, params),
                     Tail(listeners), src, method, params)

\* The params of an event tell it from every other: the k-th event the
\* browser emits carries k.
nextParams == Len(emitted) + 1

\* The debuggee of tab src emits a CDP event: the browser sends events only
\* of tabs this extension is attached to.
AgentEvent(src, method) ==
  /\ dbgOwner[src] = "self"
  /\ browserQ = <<>>
  /\ emitted' = Append(emitted, [tabId |-> src, method |-> method, params |-> nextParams])
  /\ sent' = dispatchEvent(sent, onEventListeners, src, method, nextParams)
  /\ UNCHANGED <<req>>
  /\ UNCHANGED <<driverVars, navVars>>
  /\ UNCHANGED browserVars
  /\ UNCHANGED connVars
  /\ UNCHANGED sessionVars

\* ---------------------------------------------------------- browser events
BrowserEvent(ev, tab) == [ev |-> ev, tabId |-> tab]

\* The debugger of an attached tab is detached from outside (the user cancels
\* the infobar, DevTools takes over): chrome.debugger.onDetach is dispatched.
ExternalDetach(tab) ==
  /\ dbgOwner[tab] = "self"
  /\ dbgOwner' = [dbgOwner EXCEPT ![tab] = "none"]
  /\ browserQ' = Append(browserQ, BrowserEvent("onDetach", tab))
  /\ UNCHANGED <<tabOpen, req, sent, emitted, driverVars, navVars>>
  /\ UNCHANGED connVars
  /\ UNCHANGED sessionVars

\* The tab is closed: chrome.tabs.onRemoved is dispatched, and, if this
\* extension was attached, chrome.debugger.onDetach too, in either order.
TabClose(tab) ==
  /\ tabOpen[tab]
  /\ tabOpen' = [tabOpen EXCEPT ![tab] = FALSE]
  /\ dbgOwner' = [dbgOwner EXCEPT ![tab] = "none"]
  /\ IF dbgOwner[tab] = "self"
       THEN \/ browserQ' = browserQ \o <<BrowserEvent("onDetach", tab), BrowserEvent("onRemoved", tab)>>
            \/ browserQ' = browserQ \o <<BrowserEvent("onRemoved", tab), BrowserEvent("onDetach", tab)>>
       ELSE browserQ' = Append(browserQ, BrowserEvent("onRemoved", tab))
  /\ UNCHANGED <<req, sent, emitted, driverVars, navVars>>
  /\ UNCHANGED connVars
  /\ UNCHANGED sessionVars

\* Another debugger client attaches to, or detaches from, a tab.
OtherAttach(tab) ==
  /\ tabOpen[tab]
  /\ dbgOwner[tab] = "none"
  /\ dbgOwner' = [dbgOwner EXCEPT ![tab] = "other"]
  /\ UNCHANGED <<tabOpen, browserQ, req, sent, emitted, driverVars, navVars>>
  /\ UNCHANGED connVars
  /\ UNCHANGED sessionVars

OtherDetach(tab) ==
  /\ dbgOwner[tab] = "other"
  /\ dbgOwner' = [dbgOwner EXCEPT ![tab] = "none"]
  /\ UNCHANGED <<tabOpen, browserQ, req, sent, emitted, driverVars, navVars>>
  /\ UNCHANGED connVars
  /\ UNCHANGED sessionVars

\* The listeners of chrome.debugger.onDetach (469-483) and of
\* chrome.tabs.onRemoved (486-496): the same cleanup, another notification.
notification(ev) == IF ev = "onDetach" THEN "DEBUGGER_DETACHED" ELSE "TAB_CLOSED"

\* Listeners that send their notification without lines 473-474 and 488-489:
\* the session and the subscriptions of the tab stay recorded.
DeliverEventKeepsSession ==
  /\ browserQ # <<>>
  /\ browserQ' = Tail(browserQ)
  /\ LET e == Head(browserQ) IN
     IF has(activeSessions, e.tabId)
       THEN sent' = sendToServer(sent, Message(notification(e.ev), 0, e.tabId, "", FALSE, NoResult))
       ELSE sent' = sent
  /\ UNCHANGED <<tabOpen, dbgOwner, onEventListeners, req, emitted, driverVars, navVars,
                 activeSessions, cdpEventListeners,
                 serverWs, reconnectAttempts, sockets, timers, scheduled>>

\* Listeners that drop every session and every subscription when one tab is
\* detached or removed.
DeliverEventClearsAll ==
  /\ browserQ # <<>>
  /\ browserQ' = Tail(browserQ)
  /\ LET e == Head(browserQ) IN
     IF has(activeSessions, e.tabId)
       THEN /\ activeSessions' = EmptyMap
            /\ cdpEventListeners' = EmptyMap
            /\ sent' = sendToServer(sent, Message(notification(e.ev), 0, e.tabId, "", FALSE, NoResult))
       ELSE UNCHANGED <<activeSessions, cdpEventListeners, sent>>
  /\ UNCHANGED <<tabOpen, dbgOwner, onEventListeners, req, emitted, driverVars, navVars,
                 serverWs, reconnectAttempts, sockets, timers, scheduled>>

DeliverEvent ==
  /\ browserQ # <<>>
  /\ browserQ' = Tail(browserQ)
  /\ LET e == Head(browserQ) IN
     IF has(activeSessions, e.tabId)
       THEN /\ activeSessions' = delete(activeSessions, e.tabId)
            /\ cdpEventListeners' = delete(cdpEventListeners, e.tabId)
            /\ sent' = sendToServer(sent, Message(notification(e.ev), 0, e.tabId, "", FALSE, NoResult))
       ELSE UNCHANGED <<activeSessions, cdpEventListeners, sent>>
  /\ UNCHANGED <<tabOpen, dbgOwner, onEventListeners, req, emitted, driverVars, navVars>>
  /\ UNCHANGED connVars

\* ---------------------------------------------------------------- CLOSE_TAB
\* What chrome.tabs.remove rejects with for a tab that does not exist.
noTabError == Result("No tab with id")

\* CLOSE_TAB arrives (117-119): closeTab up to its await of
\* chrome.tabs.remove (400).
RecvCloseTab(s, tab) ==
  /\ canReceive(s)
  /\ req' = Append(req, [Frame(nextId, "CLOSE_TAB", tab, "", 0, s) EXCEPT !.pc = "remove"])
  /\ UNCHANGED <<sent, emitted, driverVars, navVars>>
  /\ UNCHANGED browserVars
  /\ UNCHANGED connVars
  /\ UNCHANGED sessionVars

\* The browser runs chrome.tabs.remove of run i.  An open tab is closed:
\* onRemoved is dispatched, and onDetach too if this extension was attached,
\* in either order, and the promise of line 400 resolves; its continuation is
\* a task of its own, before, between or after the two listeners.  For a tab
\* that is gone the promise rejects and the catch block answers (165-173).
TabRemoveDone(i) ==
  /\ i \in DOMAIN req
  /\ req[i].pc = "remove"
  /\ LET f == req[i]
         tab == f.tabId
     IN IF tabOpen[tab]
          THEN /\ tabOpen' = [tabOpen EXCEPT ![tab] = FALSE]
               /\ dbgOwner' = [dbgOwner EXCEPT ![tab] = "none"]
               /\ IF dbgOwner[tab] = "self"
                    THEN \/ browserQ' = browserQ \o <<BrowserEvent("onDetach", tab), BrowserEvent("onRemoved", tab)>>
                         \/ browserQ' = browserQ \o <<BrowserEvent("onRemoved", tab), BrowserEvent("onDetach", tab)>>
                    ELSE browserQ' = Append(browserQ, BrowserEvent("onRemoved", tab))
               /\ req' = [req EXCEPT ![i].pc = "removed"]
               /\ sent' = sent
          ELSE /\ req' = [req EXCEPT ![i] = finish(f, FALSE, noTabError)]
               /\ sent' = sendToServer(sent, response(f, FALSE, noTabError))
               /\ UNCHANGED browserVars
  /\ UNCHANGED <<emitted, driverVars, navVars>>
  /\ UNCHANGED connVars
  /\ UNCHANGED sessionVars

\* closeTab continues after its await (402-407): with a session recorded for
\* the tab it calls detachDebugger, which calls chrome.debugger.detach (224)
\* if the session is attached; without one it returns {closed: true}.
CloseTabContinue(i) ==
  /\ i \in DOMAIN req
  /\ req[i].pc = "removed"
  /\ LET f == req[i]
         tab == f.tabId
     IN IF has(activeSessions, tab) /\ isAttached(tab)
          THEN /\ req' = [req EXCEPT ![i] = [f EXCEPT !.pc = "closeDetach", !.detachCalls = 1]]
               /\ sent' = sent
          ELSE /\ req' = [req EXCEPT ![i] = finish(f, TRUE, Result("closed"))]
               /\ sent' = sendToServer(sent, response(f, TRUE, Result("closed")))
  /\ UNCHANGED <<emitted, driverVars, navVars>>
  /\ UNCHANGED browserVars
  /\ UNCHANGED connVars
  /\ UNCHANGED sessionVars

\* chrome.debugger.detach called by closeTab's detachDebugger settles: on
\* success lines 227-228 and then 407, on failure the throw of 233 reaches
\* the catch block of handleServerMessage.
CloseTabDetachDone(i) ==
  /\ i \in DOMAIN req
  /\ req[i].pc = "closeDetach"
  /\ browserQ = <<>>
  /\ LET f == req[i]
         tab == f.tabId
     IN IF browserIsOurs(tab)
          THEN /\ dbgOwner' = [dbgOwner EXCEPT ![tab] = "none"]
               /\ activeSessions' = delete(activeSessions, tab)
               /\ cdpEventListeners' = delete(cdpEventListeners, tab)
               /\ req' = [req EXCEPT ![i] = finish(f, TRUE, Result("closed"))]
               /\ sent' = sendToServer(sent, response(f, TRUE, Result("closed")))
          ELSE /\ req' = [req EXCEPT ![i] = finish(f, FALSE, Result(notOursError(tab)))]
               /\ sent' = sendToServer(sent, response(f, FALSE, Result(notOursError(tab))))
               /\ UNCHANGED <<dbgOwner, activeSessions, cdpEventListeners>>
  /\ UNCHANGED <<tabOpen, browserQ, onEventListeners, emitted, driverVars, navVars>>
  /\ UNCHANGED connVars

\* ------------------------------------------------- the driver's correlator
\* The extension's own table of pending requests (background.js 13) is never
\* read or written: the extension only answers.  Requests are correlated in
\* the driver's WebSocketManager.
Pending == "pending"
Payloads == {"r1", "r2"}

\* What the server can deliver to the driver: a response carrying any id,
\* issued or not, answered before or not, or an event, which has no id.
ServerMessages ==
  [type : {"RESPONSE"}, id : 1..MaxDriverRequests, result : Payloads]
    \cup [type : {"CDP_EVENT"}, id : {0}, result : Payloads]

\* The driver issues a request: a fresh id, a future registered under it,
\* and the caller suspended on the future.
send_request ==
  /\ LET msg_id == Cardinality(DOMAIN futures) + 1 IN
       /\ pending_responses' = set(pending_responses, msg_id, msg_id)
       /\ futures' = set(futures, msg_id, Pending)
  /\ UNCHANGED <<received, callbacks>>
  /\ UNCHANGED agentVars

\* A receiver that hands a response nobody waits for to the oldest waiter.
message_receiverAnyWaiter(message) ==
  /\ received' = Append(received, message)
  /\ IF message.id \in DOMAIN pending_responses
       THEN /\ pending_responses' = delete(pending_responses, message.id)
            /\ futures' = [futures EXCEPT ![pending_responses[message.id]] = message.result]
            /\ callbacks' = callbacks
       ELSE IF message.type = "CDP_EVENT"
         THEN /\ callbacks' = Append(callbacks, message.result)
              /\ UNCHANGED <<pending_responses, futures>>
         ELSE IF pending_responses # EmptyMap
           THEN LET oldest == CHOOSE i \in DOMAIN pending_responses :
                                \A j \in DOMAIN pending_responses : i <= j
                IN /\ pending_responses' = delete(pending_responses, oldest)
                   /\ futures' = [futures EXCEPT ![pending_responses[oldest]] = message.result]
                   /\ callbacks' = callbacks
           ELSE UNCHANGED <<pending_responses, futures, callbacks>>
  /\ UNCHANGED agentVars

\* WebSocketManager._message_receiver, one turn of its loop: a message whose
\* id has a pending future pops the future and sets its result; another
\* message is forwarded to the event handlers if it is a CDP_EVENT, and is
\* dropped otherwise.
message_receiver(message) ==
  /\ received' = Append(received, message)
  /\ IF message.id \in DOMAIN pending_responses
       THEN /\ pending_responses' = delete(pending_responses, message.id)
            /\ futures' = [futures EXCEPT ![pending_responses[message.id]] = message.result]
            /\ callbacks' = callbacks
       ELSE IF message.type = "CDP_EVENT"
         THEN /\ callbacks' = Append(callbacks, message.result)
              /\ UNCHANGED <<pending_responses, futures>>
         ELSE UNCHANGED <<pending_responses, futures, callbacks>>
  /\ UNCHANGED agentVars

\* ----------------------------------------------------------------- NAVIGATE
\* The values of options.waitUntil: not set, or a condition.
WaitUntils == {"", "load"}
navigationTimeout == Result("Navigation timeout")

\* NAVIGATE arrives (109-111): navigateTo up to its await of
\* chrome.tabs.update (348).  The frame keeps options.waitUntil as its name.
RecvNavigate(s, tab, waitUntil) ==
  /\ canReceive(s)
  /\ req' = Append(req, [Frame(nextId, "NAVIGATE", tab, waitUntil, 0, s) EXCEPT !.pc = "update"])
  /\ UNCHANGED <<sent, emitted, driverVars, navVars>>
  /\ UNCHANGED browserVars
  /\ UNCHANGED connVars
  /\ UNCHANGED sessionVars

\* The browser runs chrome.tabs.update of run i: the navigation of an open
\* tab starts and the promise of line 348 resolves, its continuation being a
\* task of its own; for a tab that is gone the promise rejects and the catch
\* block answers (357-360, 165-173).
TabUpdateDone(i) ==
  /\ i \in DOMAIN req
  /\ req[i].pc = "update"
  /\ LET f == req[i]
         tab == f.tabId
     IN IF tabOpen[tab]
          THEN /\ nav' = [nav EXCEPT ![tab] = "loading"]
               /\ req' = [req EXCEPT ![i].pc = "updated"]
               /\ sent' = sent
          ELSE /\ req' = [req EXCEPT ![i] = finish(f, FALSE, noTabError)]
               /\ sent' = sendToServer(sent, response(f, FALSE, noTabError))
               /\ nav' = nav
  /\ UNCHANGED <<emitted, driverVars, navListeners>>
  /\ UNCHANGED browserVars
  /\ UNCHANGED connVars
  /\ UNCHANGED sessionVars

\* navigateTo continues after its await (350-355): with options.waitUntil set
\* waitForNavigation (364-385) sets its timeout and registers its listener
\* on chrome.webNavigation.onCompleted; without it the run answers
\* {navigated: true}.
NavigateContinue(i) ==
  /\ i \in DOMAIN req
  /\ req[i].pc = "updated"
  /\ IF req[i].name # ""
       THEN /\ req' = [req EXCEPT ![i].pc = "waiting"]
            /\ navListeners' = navListeners \cup {i}
            /\ sent' = sent
       ELSE /\ req' = [req EXCEPT ![i] = finish(req[i], TRUE, Result("navigated"))]
            /\ sent' = sendToServer(sent, response(req[i], TRUE, Result("navigated")))
            /\ navListeners' = navListeners
  /\ UNCHANGED <<emitted, driverVars, nav>>
  /\ UNCHANGED browserVars
  /\ UNCHANGED connVars
  /\ UNCHANGED sessionVars

\* The listeners of chrome.webNavigation.onCompleted that run for an event
\* of the tab (370-380): each clears its timeout, removes itself and
\* resolves its promise, which ends the run if it is still waiting.
RECURSIVE resolveFrames(_, _, _)
resolveFrames(frames, listeners, tab) ==
  IF listeners = {} THEN frames
  ELSE LET i == CHOOSE x \in listeners : \A y \in listeners : x <= y
           rest == resolveFrames(frames, listeners \ {i}, tab)
       IN IF frames[i].tabId = tab /\ frames[i].pc = "waiting"
            THEN [rest EXCEPT ![i] = finish(frames[i], TRUE, Result("navigated"))]
            ELSE rest

RECURSIVE resolveResponses(_, _, _, _)
resolveResponses(log, frames, listeners, tab) ==
  IF listeners = {} THEN log
  ELSE LET i == CHOOSE x \in listeners : \A y \in listeners : x <= y
           log1 == IF frames[i].tabId = tab /\ frames[i].pc = "waiting"
                     THEN sendToServer(log, response(frames[i], TRUE, Result("navigated")))
                     ELSE log
       IN resolveResponses(log1, frames, listeners \ {i}, tab)

\* The navigation of the tab completes and chrome.webNavigation.onCompleted
\* is dispatched to the listeners registered at that moment.
NavCompleted(tab) ==
  /\ nav[tab] = "loading"
  /\ nav' = [nav EXCEPT ![tab] = "complete"]
  /\ req' = resolveFrames(req, navListeners, tab)
  /\ sent' = resolveResponses(sent, req, navListeners, tab)
  /\ navListeners' = {i \in navListeners : req[i].tabId # tab}
  /\ UNCHANGED <<emitted, driverVars>>
  /\ UNCHANGED browserVars
  /\ UNCHANGED connVars
  /\ UNCHANGED sessionVars

\* The timeout of waitForNavigation fires (365-367): the promise is rejected
\* and the catch blocks answer with the error (357-360, 165-173).  The
\* listener stays registered.
NavigationTimeout(i) ==
  /\ i \in DOMAIN req
  /\ req[i].pc = "waiting"
  /\ req' = [req EXCEPT ![i] = finish(req[i], FALSE, navigationTimeout)]
  /\ sent' = sendToServer(sent, response(req[i], FALSE, navigationTimeout))
  /\ UNCHANGED <<emitted, driverVars, navVars>>
  /\ UNCHANGED browserVars
  /\ UNCHANGED connVars
  /\ UNCHANGED sessionVars

\* ------------------------------------------------------------ specifications
\* The session machine: requests for one tab on a connection that stays
\* open, and a browser that detaches the debugger from outside.
SessionTabs == {1}
SessionMethods == {"Page.enable"}

NextSession ==
  \/ SocketOpen(1)
  \/ Len(req) < MaxRequests /\ \E t \in SessionTabs : RecvAttach(1, t)
  \/ Len(req) < MaxRequests /\ \E t \in SessionTabs : RecvDetach(1, t)
  \/ Len(req) < MaxRequests /\ \E t \in SessionTabs, m \in SessionMethods : RecvCommand(1, t, m)
  \/ \E i \in DOMAIN req : AttachDone(i)
  \/ \E i \in DOMAIN req : DetachDone(i)
  \/ \E i \in DOMAIN req : CommandDone(i)
  \/ \E t \in SessionTabs : ExternalDetach(t)
  \/ DeliverEvent

SpecSession == Init /\ [][NextSession]_vars

\* The command relay: concurrent commands with either method for either tab
\* on a connection that stays open, the tabs attached on demand and detached
\* on request while commands are in flight.
NextCommands ==
  \/ SocketOpen(1)
  \/ Len(req) < MaxCommandRequests /\ \E t \in Tabs, m \in Methods : RecvCommand(1, t, m)
  \/ Len(req) < MaxCommandRequests /\ \E t \in Tabs : RecvDetach(1, t)
  \/ \E i \in DOMAIN req : AttachDone(i)
  \/ \E i \in DOMAIN req : CommandDone(i)
  \/ \E i \in DOMAIN req : DetachDone(i)

SpecCommands == Init /\ [][NextCommands]_vars

\* The event multiplexer: sessions of tab 1, subscriptions for both tabs and
\* both event names, events of tab 1, and a browser that detaches the
\* debugger or closes the tab.
NextEvents ==
  \/ SocketOpen(1)
  \/ Len(req) < MaxSubRequests /\ RecvAttach(1, 1)
  \/ Len(req) < MaxSubRequests /\ RecvDetach(1, 1)
  \/ Len(req) < MaxSubRequests /\ \E t \in Tabs, e \in EventNames : RecvRegister(1, t, e, 1)
  \/ \E i \in DOMAIN req : AttachDone(i)
  \/ \E i \in DOMAIN req : DetachDone(i)
  \/ Len(emitted) < MaxEvents /\ \E e \in EventNames : AgentEvent(1, e)
  \/ ExternalDetach(1)
  \/ TabClose(1)
  \/ DeliverEvent

SpecEvents == Init /\ [][NextEvents]_vars

\* The connection: sockets that open, close and are replaced by the
\* reconnect timer while commands for tab 1 are being handled.
NextConn ==
  \/ \E s \in DOMAIN sockets : SocketOpen(s)
  \/ \E s \in DOMAIN sockets : SocketClosing(s)
  \/ \E s \in DOMAIN sockets : SocketClose(s)
  \/ (mustConnect => Len(sockets) < MaxSockets) /\ \E k \in DOMAIN timers : TimerFire(k)
  \/ Len(req) < MaxConnRequests /\ \E s \in DOMAIN sockets : RecvCommand(s, 1, "Page.enable")
  \/ \E i \in DOMAIN req : AttachDone(i)
  \/ \E i \in DOMAIN req : CommandDone(i)
  \/ ExternalDetach(1)
  \/ DeliverEvent

SpecConn == Init /\ [][NextConn]_vars

\* The round trip: attach and detach requests for either tab, each sent once
\* the requests before it have been answered, on a connection that stays open
\* and with no other debugger client.
idle == \A i \in DOMAIN req : req[i].pc = "done"

NextRoundTrip ==
  \/ SocketOpen(1)
  \/ Len(req) < MaxRoundTripRequests /\ idle /\ \E t \in Tabs : RecvAttach(1, t)
  \/ Len(req) < MaxRoundTripRequests /\ idle /\ \E t \in Tabs : RecvDetach(1, t)
  \/ \E i \in DOMAIN req : AttachDone(i)
  \/ \E i \in DOMAIN req : DetachDone(i)

SpecRoundTrip == Init /\ [][NextRoundTrip]_vars

\* The owners of a tab: concurrent attach requests while another debugger
\* client attaches to and detaches from the tabs and the tabs are closed.
NextOwners ==
  \/ SocketOpen(1)
  \/ Len(req) < MaxOwnerRequests /\ \E t \in Tabs : RecvAttach(1, t)
  \/ \E i \in DOMAIN req : AttachDone(i)
  \/ \E t \in Tabs : OtherAttach(t)
  \/ \E t \in Tabs : OtherDetach(t)
  \/ \E t \in Tabs : TabClose(t)
  \/ DeliverEvent

SpecOwners == Init /\ [][NextOwners]_vars

\* The protocol and the heartbeat: frames that are not JSON, messages of
\* unknown type, PONGs and subscriptions on sockets that open, close and are
\* replaced, and the keepalive interval.
NextProtocol ==
  \/ \E s \in DOMAIN sockets : SocketOpen(s)
  \/ \E s \in DOMAIN sockets : SocketClosing(s)
  \/ \E s \in DOMAIN sockets : SocketClose(s)
  \/ (mustConnect => Len(sockets) < MaxSockets) /\ \E k \in DOMAIN timers : TimerFire(k)
  \/ Len(req) < MaxProtocolMessages /\ \E s \in DOMAIN sockets : RecvMalformed(s)
  \/ Len(req) < MaxProtocolMessages /\ \E s \in DOMAIN sockets, ty \in UnknownTypes : RecvUnknown(s, ty)
  \/ Len(req) < MaxProtocolMessages /\ \E s \in DOMAIN sockets : RecvPong(s)
  \/ Len(req) < MaxProtocolMessages /\ \E s \in DOMAIN sockets : RecvRegister(s, 1, "load", 1)
  \/ Pings < MaxPings /\ KeepAlive

SpecProtocol == Init /\ [][NextProtocol]_vars

\* The reconnect loop: sockets that fail to connect or open and close, the
\* reconnect timers, and the browser starting up while no reconnect is
\* pending.
NextReconnect ==
  \/ \E s \in DOMAIN sockets : SocketOpen(s)
  \/ \E s \in DOMAIN sockets : SocketClosing(s)
  \/ \E s \in DOMAIN sockets : SocketClose(s)
  \/ (mustConnect => Len(sockets) < MaxReconnectSockets) /\ \E k \in DOMAIN timers : TimerFire(k)
  \/ mustConnect /\ timers = <<>> /\ Len(sockets) < MaxReconnectSockets /\ Startup

SpecReconnect == Init /\ [][NextReconnect]_vars

\* The registry: subscriptions registered and unregistered for either tab,
\* either event name and either listener id.
NextRegistry ==
  \/ SocketOpen(1)
  \/ Len(req) < MaxRegistryRequests
       /\ \E t \in Tabs, e \in EventNames, l \in ListenerIds : RecvRegister(1, t, e, l)
  \/ Len(req) < MaxRegistryRequests
       /\ \E t \in Tabs, e \in EventNames, l \in ListenerIds : RecvUnregister(1, t, e, l)

SpecRegistry == Init /\ [][NextRegistry]_vars

\* Closing tabs: a driver that sends each request once the requests before
\* it have been answered attaches to tabs, subscribes to their events and
\* closes them, while the browser delivers the events of each closure.
NextCloseTab ==
  \/ SocketOpen(1)
  \/ idle /\ Len(req) < MaxCloseRequests /\ \E t \in Tabs : RecvAttach(1, t)
  \/ idle /\ Len(req) < MaxCloseRequests /\ \E t \in Tabs : RecvRegister(1, t, "load", 1)
  \/ idle /\ Len(req) < MaxCloseRequests /\ \E t \in Tabs : RecvCloseTab(1, t)
  \/ \E i \in DOMAIN req : AttachDone(i)
  \/ \E i \in DOMAIN req : TabRemoveDone(i)
  \/ \E i \in DOMAIN req : CloseTabContinue(i)
  \/ \E i \in DOMAIN req : CloseTabDetachDone(i)
  \/ DeliverEvent

SpecCloseTab == Init /\ [][NextCloseTab]_vars

\* The driver's correlator: requests issued and messages taken by the
\* receiver task, in any interleaving.
NextCorrelator ==
  \/ Cardinality(DOMAIN futures) < MaxDriverRequests /\ send_request
  \/ Len(received) < MaxDriverMessages /\ \E m \in ServerMessages : message_receiver(m)

SpecCorrelator == Init /\ [][NextCorrelator]_vars

\* Forwarding and the registry: a driver that sends each request once the
\* requests before it have been answered attaches tab 1, registers and
\* unregisters either listener id for "load", while tab 1 emits "load".
NextForwarding ==
  \/ SocketOpen(1)
  \/ idle /\ Len(req) < MaxForwardRequests /\ RecvAttach(1, 1)
  \/ idle /\ Len(req) < MaxForwardRequests /\ \E l \in ListenerIds : RecvRegister(1, 1, "load", l)
  \/ idle /\ Len(req) < MaxForwardRequests /\ \E l \in ListenerIds : RecvUnregister(1, 1, "load", l)
  \/ \E i \in DOMAIN req : AttachDone(i)
  \/ Len(emitted) < MaxForwardEvents /\ AgentEvent(1, "load")

SpecForwarding == Init /\ [][NextForwarding]_vars

\* Two tabs side by side: a driver that sends each request once the requests
\* before it have been answered attaches, detaches, subscribes and
\* unsubscribes on either tab, while the browser detaches the debugger from
\* outside and closes tabs.
NextIsolation ==
  \/ SocketOpen(1)
  \/ idle /\ Len(req) < MaxIsolationRequests /\ \E t \in Tabs : RecvAttach(1, t)
  \/ idle /\ Len(req) < MaxIsolationRequests /\ \E t \in Tabs : RecvDetach(1, t)
  \/ idle /\ Len(req) < MaxIsolationRequests /\ \E t \in Tabs : RecvRegister(1, t, "load", 1)
  \/ idle /\ Len(req) < MaxIsolationRequests /\ \E t \in Tabs : RecvUnregister(1, t, "load", 1)
  \/ \E i \in DOMAIN req : AttachDone(i)
  \/ \E i \in DOMAIN req : DetachDone(i)
  \/ \E t \in Tabs : ExternalDetach(t)
  \/ \E t \in Tabs : TabClose(t)
  \/ DeliverEvent

SpecIsolation == Init /\ [][NextIsolation]_vars

\* Navigation: a driver that sends each NAVIGATE once the requests before it
\* have been answered, with and without waitUntil, for either tab; the
\* navigations complete at any moment after they started, also before
\* navigateTo has continued, and the timeouts fire at any moment.
NextNavigate ==
  \/ SocketOpen(1)
  \/ idle /\ Len(req) < MaxNavigateRequests
       /\ \E t \in Tabs, w \in WaitUntils : RecvNavigate(1, t, w)
  \/ \E i \in DOMAIN req : TabUpdateDone(i)
  \/ \E i \in DOMAIN req : NavigateContinue(i)
  \/ \E t \in Tabs : NavCompleted(t)
  \/ \E i \in DOMAIN req : NavigationTimeout(i)

SpecNavigate == Init /\ [][NextNavigate]_vars

\* ================================================================= claims
serverOpen == serverWs # 0 /\ sockets[serverWs] = "OPEN"
Last(seq) == seq[Len(seq)]
IsResponse(m) == m.type = "RESPONSE"
ResponsesOf(id) == {k \in DOMAIN sent : IsResponse(sent[k]) /\ sent[k].id = id}
AttachErrors == {"Another debugger is already attached", "No tab with given id"}
NotOursErrors == {"Debugger is not attached to the tab", "No tab with given id"}

\* What a run of the given request may answer.
FitsRequest(f, m) ==
  CASE f.type = "ATTACH_DEBUGGER" ->
         IF m.success THEN m.result \in {Result("attached"), Result("alreadyAttached")}
         ELSE m.result.kind \in AttachErrors
    [] f.type = "DETACH_DEBUGGER" ->
         IF m.success THEN m.result \in {Result("detached"), Result("Not attached")}
         ELSE m.result.kind \in NotOursErrors
    [] f.type = "CDP_COMMAND" ->
         IF m.success
           THEN m.result = [kind |-> "result", tab |-> f.tabId, name |-> f.name]
           ELSE m.result.kind \in AttachErrors \cup NotOursErrors \cup {"Command failed"}
    [] f.type = "REGISTER_CDP_LISTENER" -> m.success /\ m.result = Result("registered")
    [] f.type = "UNREGISTER_CDP_LISTENER" -> m.success /\ m.result = Result("unregistered")
    [] OTHER -> FALSE

\* C1: every RESPONSE sent carries the id of a request that was received and
\* whose run has ended, and the result or error of that same run: the outcome
\* the run reached, which is an outcome of that request's type, tab and
\* method.  Responses need not follow the order of arrival.
C1_ResponseMatchesRequest ==
  \A k \in DOMAIN sent :
    IsResponse(sent[k]) =>
      /\ sent[k].id \in DOMAIN req
      /\ LET f == req[sent[k].id] IN
           /\ f.pc = "done"
           /\ sent[k].success = f.ok
           /\ sent[k].result = f.result
           /\ FitsRequest(f, sent[k])

\* Two commands with different methods, answered in the reverse of the order
\* in which they arrived, each with its own result.
C1_Witness ==
  \E k1, k2 \in DOMAIN sent :
    /\ k1 < k2
    /\ IsResponse(sent[k1]) /\ IsResponse(sent[k2])
    /\ sent[k1].id > sent[k2].id
    /\ sent[k1].success /\ sent[k2].success
    /\ req[sent[k1].id].type = "CDP_COMMAND" /\ req[sent[k2].id].type = "CDP_COMMAND"
    /\ sent[k1].result # sent[k2].result

\* The runs whose chrome.debugger.attach call for the tab has not settled.
AttachInFlight(tab) == {i \in DOMAIN req : req[i].pc = "attach" /\ req[i].tabId = tab}
IssuesAttach(i) ==
  /\ i \in DOMAIN req'
  /\ req'[i].attachCalls = 1
  /\ (i \in DOMAIN req => req[i].attachCalls = 0)

\* C2: a chrome.debugger.attach call for a tab is issued only when no other
\* attach call for that tab is in flight and the tab is not attached by this
\* extension.
C2_AttachNeverConcurrent ==
  [][\A i \in DOMAIN req' :
       IssuesAttach(i) =>
         /\ AttachInFlight(req'[i].tabId) = {}
         /\ dbgOwner[req'[i].tabId] # "self"]_vars

\* The step in which an ATTACH_DEBUGGER request for an attached tab arrives.
DuplicateAttachArrives ==
  /\ Len(req') = Len(req) + 1
  /\ Last(req').type = "ATTACH_DEBUGGER"
  /\ isAttached(Last(req').tabId)

\* C3: attachDebugger on a tab that is attached answers {attached: true,
\* alreadyAttached: true}, calls chrome.debugger.attach not at all, adds no
\* chrome.debugger.onEvent listener and leaves activeSessions as it was.
C3_DuplicateAttachIdempotent ==
  [][DuplicateAttachArrives =>
       /\ Last(req').pc = "done"
       /\ Last(req').ok
       /\ Last(req').result = Result("alreadyAttached")
       /\ Last(req').attachCalls = 0
       /\ activeSessions' = activeSessions
       /\ onEventListeners' = onEventListeners
       /\ dbgOwner' = dbgOwner
       /\ sent' = sendToServer(sent, response(Last(req'), TRUE, Result("alreadyAttached")))]_vars

\* Attach, then two more attach requests while attached: both answered
\* alreadyAttached, one underlying call in all.
C3_Witness ==
  \E i, j \in DOMAIN req :
    /\ i < j
    /\ req[i].type = "ATTACH_DEBUGGER" /\ req[j].type = "ATTACH_DEBUGGER"
    /\ req[i].tabId = req[j].tabId
    /\ req[i].result = Result("alreadyAttached")
    /\ req[j].result = Result("alreadyAttached")
    /\ ResponsesOf(req[i].id) # {} /\ ResponsesOf(req[j].id) # {}
    /\ Len(onEventListeners) = 1

\* The run of a CDP_COMMAND that arrived while its tab was not attached.
OnDemand(f) == f.type = "CDP_COMMAND" /\ f.attachCalls = 1

\* C6 as the spec states it: a CDP_COMMAND for a tab that is not attached
\* fails, no command is sent to the tab, and the tab stays unattached.
C6_UnattachedCommandFails ==
  \A i \in DOMAIN req :
    OnDemand(req[i]) =>
      /\ req[i].cmds = <<>>
      /\ req[i].pc = "done" => ~req[i].ok
      /\ req[i].pc # "attach" => ~isAttached(req[i].tabId)

\* C6, amended: a CDP_COMMAND for a tab that is not attached makes one
\* chrome.debugger.attach call and sends no command yet.  When that call
\* succeeds the tab is attached and the command is sent to it; when it fails
\* the run ends with the attach error, which it hands to sendToServer in a
\* RESPONSE with success false; no command is sent and activeSessions is left
\* as it was.
C6_CommandAttachesOnDemand ==
  [][/\ (Len(req') = Len(req) + 1 /\ Last(req').type = "CDP_COMMAND"
           /\ ~isAttached(Last(req').tabId)) =>
          /\ Last(req').pc = "attach"
          /\ Last(req').attachCalls = 1
          /\ Last(req').cmds = <<>>
          /\ sent' = sent
     /\ \A i \in DOMAIN req :
          (OnDemand(req[i]) /\ req[i].pc = "attach" /\ req'[i].pc # "attach") =>
            \/ /\ req'[i].pc = "sendCommand"
               /\ req'[i].cmds = <<[tabId |-> req[i].tabId, method |-> req[i].name]>>
               /\ has(activeSessions', req[i].tabId)
               /\ activeSessions'[req[i].tabId].attached
               /\ dbgOwner'[req[i].tabId] = "self"
            \/ /\ req'[i].pc = "done"
               /\ ~req'[i].ok
               /\ req'[i].result.kind \in AttachErrors
               /\ req'[i].cmds = <<>>
               /\ activeSessions' = activeSessions
               /\ ResponsesOf(req[i].id) = {}
               /\ sent' = sendToServer(sent, response(req'[i], FALSE, req'[i].result))]_vars

\* A command for an unattached tab that was attached on demand, sent and
\* answered with its result, and another whose on-demand attach failed.
C6_Witness ==
  /\ \E i \in DOMAIN req :
       /\ OnDemand(req[i]) /\ req[i].pc = "done" /\ req[i].ok
       /\ Len(req[i].cmds) = 1
       /\ ResponsesOf(req[i].id) # {}
  /\ \E j \in DOMAIN req :
       /\ OnDemand(req[j]) /\ req[j].pc = "done" /\ ~req[j].ok
       /\ req[j].cmds = <<>>

\* C8: a CDP_COMMAND request causes at most one chrome.debugger.sendCommand
\* call, for the tab and method of the request; exactly one once the tab was
\* found or made attached; no other request causes any; and no request is
\* answered twice.
C8_CommandReachesTargetOnce ==
  /\ \A i \in DOMAIN req :
       LET f == req[i] IN
         /\ Len(f.cmds) <= 1
         /\ \A k \in DOMAIN f.cmds : f.cmds[k] = [tabId |-> f.tabId, method |-> f.name]
         /\ f.type # "CDP_COMMAND" => f.cmds = <<>>
         /\ (f.type = "CDP_COMMAND"
               /\ (f.attachCalls = 0 \/ f.pc = "sendCommand" \/ (f.pc = "done" /\ f.ok)))
              => Len(f.cmds) = 1
  /\ \A k1, k2 \in DOMAIN sent :
       (IsResponse(sent[k1]) /\ IsResponse(sent[k2]) /\ sent[k1].id = sent[k2].id)
         => k1 = k2

\* A command that failed on its tab, answered once with the error and sent
\* once; and a command attached on demand, sent once and answered once.
C8_Witness ==
  /\ \E i \in DOMAIN req :
       /\ req[i].type = "CDP_COMMAND" /\ req[i].pc = "done"
       /\ req[i].result = Result("Command failed")
       /\ Len(req[i].cmds) = 1
       /\ Cardinality(ResponsesOf(req[i].id)) = 1
  /\ \E j \in DOMAIN req :
       /\ OnDemand(req[j]) /\ req[j].pc = "done" /\ req[j].ok
       /\ Len(req[j].cmds) = 1
       /\ Cardinality(ResponsesOf(req[j].id)) = 1

\* The step in which the browser emits a CDP event, and that event.
EventEmitted == Len(emitted') = Len(emitted) + 1
Subscribed(tab, method) ==
  /\ has(cdpEventListeners, tab)
  /\ has(cdpEventListeners[tab], method)
  /\ cdpEventListeners[tab][method] # {}
\* The messages a step hands to the socket.
NewlySent == {k \in DOMAIN sent' : k > Len(sent)}

\* C4: an event of (tab, eventName) emitted while a subscriber is registered
\* for the pair and the server connection is open makes exactly one CDP_EVENT
\* message.
C4_OneMessagePerEvent ==
  [][(EventEmitted /\ Subscribed(Last(emitted').tabId, Last(emitted').method)
        /\ serverOpen) =>
       /\ Len(sent') = Len(sent) + 1
       /\ Last(sent').type = "CDP_EVENT"]_vars

EventsForwarded(tab, method) ==
  {k \in DOMAIN sent : sent[k].type = "CDP_EVENT" /\ sent[k].tabId = tab
                          /\ sent[k].method = method}

C10_SessionEndRemovesSubscriptions ==
  [][\A t \in Tabs :
       (has(activeSessions, t) /\ ~has(activeSessions', t)) =>
         ~has(cdpEventListeners', t)]_vars

\* A subscription for tab 1 was registered, then the session of tab 1 ended
\* by a successful DETACH_DEBUGGER: the registry holds nothing for tab 1.
C10_Witness ==
  \E i, j \in DOMAIN req :
    /\ i < j
    /\ req[i].type = "REGISTER_CDP_LISTENER" /\ req[i].tabId = 1
    /\ req[j].type = "DETACH_DEBUGGER" /\ req[j].tabId = 1
    /\ req[j].result = Result("detached")
    /\ ~has(cdpEventListeners, 1)
    /\ ~has(activeSessions, 1)

\* The run i ends in this step with an error.
EndsWithError(i) ==
  /\ i \in DOMAIN req'
  /\ req'[i].pc = "done" /\ ~req'[i].ok
  /\ (i \in DOMAIN req => req[i].pc # "done")

ErrorResponsesOf(f) ==
  {k \in DOMAIN sent : /\ IsResponse(sent[k]) /\ sent[k].id = f.id
                       /\ ~sent[k].success /\ sent[k].result = f.result}

\* C7 as stated: every run that ended with an error has sent a RESPONSE with
\* its id, success false and the error message, whatever happened to the
\* connection meanwhile.
C7_EveryErrorAnswered ==
  \A i \in DOMAIN req :
    (req[i].pc = "done" /\ ~req[i].ok) => ErrorResponsesOf(req[i]) # {}

\* C7, amended: a run that ends with an error sends a RESPONSE with its id,
\* success false and the error message on the socket serverWs refers to at
\* that moment if that socket is OPEN (the socket the request came in on or a
\* later one); if serverWs is null or not OPEN the error is logged and
\* nothing is sent, then or later.
C7_ErrorAnsweredIfConnected ==
  [][/\ \A i \in DOMAIN req' :
          EndsWithError(i) =>
            IF serverOpen
              THEN sent' = Append(sent, [type |-> "RESPONSE", id |-> req'[i].id,
                                         tabId |-> 0, method |-> "", success |-> FALSE,
                                         result |-> req'[i].result, params |-> 0,
                                         sock |-> serverWs])
              ELSE sent' = sent
     /\ \A i \in DOMAIN req :
          (req[i].pc = "done" /\ ~req[i].ok) =>
            \A k \in NewlySent : ~(IsResponse(sent'[k]) /\ sent'[k].id = req[i].id)]_vars

\* A run that failed while the connection was down and was answered nowhere,
\* and a run whose error went out on a socket opened after its request came in.
C7_Witness ==
  /\ \E i \in DOMAIN req :
       /\ req[i].pc = "done" /\ ~req[i].ok
       /\ ResponsesOf(req[i].id) = {}
  /\ \E j \in DOMAIN req :
       /\ req[j].pc = "done" /\ ~req[j].ok
       /\ \E k \in ErrorResponsesOf(req[j]) : sent[k].sock # req[j].sock

\* The step in which a listener of chrome.debugger.onDetach or
\* chrome.tabs.onRemoved runs, and the tab of its event.
BrowserEventHandled == browserQ # <<>> /\ browserQ' = Tail(browserQ)

\* C9: when the debugger of an attached tab is detached from outside or the
\* tab is closed, the session is removed and exactly one notification
\* (DEBUGGER_DETACHED or TAB_CLOSED) for the tab is sent, and no RESPONSE; a
\* second browser event for a tab whose session is gone sends nothing.
C9_ExternalDetachNotifiesOnce ==
  [][BrowserEventHandled =>
       LET tab == Head(browserQ).tabId IN
       IF has(activeSessions, tab)
         THEN /\ ~has(activeSessions', tab)
              /\ Len(sent') = Len(sent) + 1
              /\ Last(sent').type \in {"DEBUGGER_DETACHED", "TAB_CLOSED"}
              /\ Last(sent').tabId = tab
         ELSE sent' = sent /\ activeSessions' = activeSessions]_vars

\* The step in which serverWs.onclose of some socket runs.
SocketCloses == \E s \in DOMAIN sockets : sockets[s] # "CLOSED" /\ sockets'[s] = "CLOSED"

\* C11: when serverWs.onclose runs, every session ends: after the closure
\* activeSessions holds no tab, so that a later attach calls
\* chrome.debugger.attach anew.
C11_CloseEndsEverySession ==
  [][SocketCloses => activeSessions' = EmptyMap]_vars

\* The step in which a DETACH_DEBUGGER request for a tab that is not attached
\* arrives.
UnattachedDetachArrives ==
  /\ Len(req') = Len(req) + 1
  /\ Last(req').type = "DETACH_DEBUGGER"
  /\ ~isAttached(Last(req').tabId)

\* What detachDebugger does for a tab that is not attached, but for the
\* reason it returns.
DetachUnattachedAnswers(reason) ==
  UnattachedDetachArrives =>
    /\ Last(req').pc = "done"
    /\ Last(req').ok
    /\ Last(req').result = Result(reason)
    /\ Last(req').detachCalls = 0
    /\ activeSessions' = activeSessions
    /\ cdpEventListeners' = cdpEventListeners
    /\ dbgOwner' = dbgOwner
    /\ sent' = sendToServer(sent, response(Last(req'), TRUE, Result(reason)))

\* C12 as stated: detachDebugger on a tab that is not attached does not fail,
\* returns {detached: false, reason: "not attached"}, calls
\* chrome.debugger.detach not at all and leaves activeSessions and
\* cdpEventListeners as they were.
C12_DetachUnattachedLowercase ==
  [][DetachUnattachedAnswers("not attached")]_vars

\* C12, amended: the same, the reason returned being the string
\* "Not attached".
C12_DetachUnattachedForgiving ==
  [][DetachUnattachedAnswers("Not attached")]_vars

\* A DETACH_DEBUGGER for tab 1, never attached and holding a subscription,
\* was answered "Not attached" without a call; the subscription is still
\* there.
C12_Witness ==
  \E i, j \in DOMAIN req :
    /\ i < j
    /\ req[i].type = "REGISTER_CDP_LISTENER" /\ req[i].tabId = 1
    /\ req[j].type = "DETACH_DEBUGGER" /\ req[j].tabId = 1
    /\ \A k \in DOMAIN req : req[k].attachCalls = 0
    /\ req[j].pc = "done" /\ req[j].ok /\ req[j].detachCalls = 0
    /\ req[j].result = Result("Not attached")
    /\ ResponsesOf(req[j].id) # {}
    /\ Subscribed(1, req[i].name)


\* The session state of the tab after the first k requests, by the state
\* machine Unattached --attach--> Attached --detach--> Unattached.
RECURSIVE attachedAfter(_, _)
attachedAfter(k, tab) ==
  IF k = 0 THEN FALSE
  ELSE IF req[k].tabId = tab /\ req[k].type = "ATTACH_DEBUGGER" THEN TRUE
  ELSE IF req[k].tabId = tab /\ req[k].type = "DETACH_DEBUGGER" THEN FALSE
  ELSE attachedAfter(k - 1, tab)

\* C13: with requests sent one after the other, attach on an Unattached tab
\* succeeds with one chrome.debugger.attach call, attach on an Attached tab
\* answers alreadyAttached without a call, detach on an Attached tab answers
\* detached true with one chrome.debugger.detach call and leaves the tab
\* Unattached, detach on an Unattached tab answers detached false without a
\* call; the session table and the browser agree with the state machine after
\* every request.
C13_AttachDetachRoundTrip ==
  /\ \A i \in DOMAIN req :
       LET f == req[i]
           before == attachedAfter(i - 1, f.tabId)
       IN  /\ f.type = "ATTACH_DEBUGGER" =>
                /\ f.attachCalls = (IF before THEN 0 ELSE 1)
                /\ f.detachCalls = 0
                /\ f.pc = "done" =>
                     /\ f.ok
                     /\ f.result = (IF before THEN Result("alreadyAttached")
                                    ELSE Result("attached"))
           /\ f.type = "DETACH_DEBUGGER" =>
                /\ f.detachCalls = (IF before THEN 1 ELSE 0)
                /\ f.attachCalls = 0
                /\ f.pc = "done" =>
                     /\ f.ok
                     /\ f.result = (IF before THEN Result("detached")
                                    ELSE Result("Not attached"))
  /\ idle => \A t \in Tabs :
       /\ isAttached(t) <=> attachedAfter(Len(req), t)
       /\ has(activeSessions, t) <=> attachedAfter(Len(req), t)
       /\ dbgOwner[t] = "self" <=> attachedAfter(Len(req), t)

\* attach, attach, detach, detach, attach for tab 1, answered attached,
\* alreadyAttached, detached, not attached, attached, with two
\* chrome.debugger.attach calls and one chrome.debugger.detach call in all.
C13_Witness ==
  /\ Len(req) = 5
  /\ \A i \in DOMAIN req : req[i].tabId = 1 /\ req[i].pc = "done" /\ ResponsesOf(i) # {}
  /\ req[1].result = Result("attached") /\ req[1].attachCalls = 1
  /\ req[2].result = Result("alreadyAttached") /\ req[2].attachCalls = 0
  /\ req[3].result = Result("detached") /\ req[3].detachCalls = 1
  /\ req[4].result = Result("Not attached") /\ req[4].detachCalls = 0
  /\ req[5].result = Result("attached") /\ req[5].attachCalls = 1
  /\ isAttached(1) /\ dbgOwner[1] = "self"


\* The chrome.debugger.attach call of run i settles in this step with an
\* error.
AttachFails(i) ==
  /\ req[i].pc = "attach"
  /\ req'[i].pc = "done"
  /\ ~req'[i].ok

\* C14: an ATTACH_DEBUGGER request fails because the tab is already attached
\* only when another debugger client holds the tab; it never fails so while
\* this extension has attached the tab or is attaching it.
C14_ConflictOnlyWithOtherOwner ==
  [][\A i \in DOMAIN req :
       (/\ req[i].type = "ATTACH_DEBUGGER"
        /\ AttachFails(i)
        /\ req'[i].result = Result("Another debugger is already attached"))
         => dbgOwner[req[i].tabId] = "other"]_vars

\* C15: when chrome.debugger.attach fails (the tab is held by another
\* debugger client, or is gone) the run ends with the error of the call,
\* handed to sendToServer in a RESPONSE with success false, and the session
\* state is as before: activeSessions, the chrome.debugger.onEvent listeners
\* and the registry are unchanged, and a tab that was not in activeSessions
\* is not in it afterwards.
C15_FailedAttachChangesNothing ==
  [][\A i \in DOMAIN req :
       AttachFails(i) =>
         /\ ~browserCanAttach(req[i].tabId)
         /\ req'[i].result = Result(attachError(req[i].tabId))
         /\ req'[i].result.kind \in AttachErrors
         /\ sent' = sendToServer(sent, response(req[i], FALSE, req'[i].result))
         /\ activeSessions' = activeSessions
         /\ onEventListeners' = onEventListeners
         /\ cdpEventListeners' = cdpEventListeners
         /\ dbgOwner' = dbgOwner
         /\ ~has(activeSessions, req[i].tabId) => ~has(activeSessions', req[i].tabId)]_vars

\* An attach of tab 1 failed while another debugger client held the tab and
\* was answered with the error; tab 1 is in no session and no
\* chrome.debugger.onEvent listener exists.  A later attach of tab 2 failed
\* because the tab was closed.
C15_Witness ==
  \E i, j \in DOMAIN req :
    /\ req[i].tabId = 1 /\ req[i].pc = "done" /\ ~req[i].ok
    /\ req[i].result = Result("Another debugger is already attached")
    /\ \E k \in ResponsesOf(req[i].id) : ~sent[k].success /\ sent[k].result = req[i].result
    /\ req[j].tabId = 2 /\ req[j].pc = "done" /\ ~req[j].ok
    /\ req[j].result = Result("No tab with given id")
    /\ dbgOwner[1] = "other"
    /\ activeSessions = EmptyMap
    /\ onEventListeners = <<>>


\* The records of messages that are malformed or of unknown type.
Malformed(f) == f.type = "" /\ f.result = SyntaxError
UnknownType(f) == f.type \in UnknownTypes
ProtocolErrorArrives ==
  /\ Len(req') = Len(req) + 1
  /\ Malformed(Last(req')) \/ UnknownType(Last(req'))

\* C16 as stated: a message that is not decodable or whose type is unknown
\* disconnects the connection it arrived on: the socket that received one is
\* not left OPEN.
C16_ProtocolErrorDisconnects ==
  \A i \in DOMAIN req :
    (Malformed(req[i]) \/ UnknownType(req[i])) => sockets[req[i].sock] # "OPEN"

\* C16, amended: neither closes the connection.  A frame that is not JSON is
\* logged and dropped without an answer; a message of unknown type is
\* answered with a RESPONSE of its id, success false and the error "Unknown
\* message type: <type>", handed to sendToServer.  In both cases the sockets,
\* serverWs, reconnectAttempts and the reconnect timers are as before, and so
\* are the sessions and the registry.
C16_ProtocolErrorKeepsConnection ==
  [][ProtocolErrorArrives =>
       /\ sockets' = sockets
       /\ serverWs' = serverWs
       /\ reconnectAttempts' = reconnectAttempts
       /\ timers' = timers
       /\ activeSessions' = activeSessions
       /\ cdpEventListeners' = cdpEventListeners
       /\ Last(req').pc = "done" /\ ~Last(req').ok
       /\ IF Malformed(Last(req'))
            THEN sent' = sent
            ELSE /\ Last(req').id = Len(req')
                 /\ Last(req').result = Result("Unknown message type: " \o Last(req').type)
                 /\ sent' = sendToServer(sent, response(Last(req'), FALSE, Last(req').result))]_vars

\* Socket 1 received a frame that is not JSON and a message of unknown type,
\* answered the second with the error, and then served a subscription: it is
\* still OPEN and no reconnect was scheduled.
C16_Witness ==
  \E i, j, k \in DOMAIN req :
    /\ Malformed(req[i]) /\ UnknownType(req[j])
    /\ i < k /\ j < k
    /\ req[k].type = "REGISTER_CDP_LISTENER" /\ req[k].ok
    /\ req[i].sock = 1 /\ req[j].sock = 1 /\ req[k].sock = 1
    /\ ResponsesOf(req[i].id) = {}
    /\ \E m \in ResponsesOf(req[j].id) :
         ~sent[m].success /\ sent[m].result = Result("Unknown message type: BOGUS")
    /\ \E m \in ResponsesOf(req[k].id) : sent[m].success /\ sent[m].sock = 1
    /\ sockets = <<"OPEN">> /\ serverWs = 1
    /\ reconnectAttempts = 0 /\ timers = <<>>

\* The step in which the keepalive sends a PING.
PingSent == \E k \in NewlySent : sent'[k].type = "PING"

\* C20: the keepalive sends a PING only on an open connection and does
\* nothing else, however many PINGs are without a PONG: the sockets, serverWs,
\* reconnectAttempts and the timers are as before.  reconnectAttempts grows
\* and a reconnect timer is set only in a step in which a socket closes.
C20_HeartbeatAdvisory ==
  [][/\ PingSent =>
          /\ serverOpen
          /\ sent' = Append(sent, [Ping EXCEPT !.sock = serverWs])
          /\ sockets' = sockets
          /\ serverWs' = serverWs
          /\ reconnectAttempts' = reconnectAttempts
          /\ timers' = timers
     /\ (reconnectAttempts' > reconnectAttempts \/ Len(timers') > Len(timers)
           \/ Len(scheduled') > Len(scheduled)) => SocketCloses]_vars

\* Two PINGs went out on socket 1 and no PONG ever came: the socket is still
\* OPEN, reconnectAttempts is 0 and no reconnect was scheduled.
C20_Witness ==
  /\ Pings = 2 /\ Pongs = 0
  /\ \A k \in DOMAIN sent : sent[k].type = "PING" => sent[k].sock = 1
  /\ sockets = <<"OPEN">> /\ serverWs = 1
  /\ reconnectAttempts = 0 /\ timers = <<>> /\ scheduled = <<>>


\* The parameters of the backoff.
baseDelay == 1000
capDelay == 10000

\* C17: the k-th reconnect scheduled since the last successful open (k in
\* 1..5) has the delay min(baseDelay * 2^k, capDelay) with baseDelay 1000 ms
\* and capDelay 10000 ms; the delays since the last open are non-decreasing
\* and none exceeds the cap.
C17_BackoffDelays ==
  /\ Len(scheduled) = reconnectAttempts
  /\ \A k \in DOMAIN scheduled :
       /\ k \in 1..5
       /\ scheduled[k] = Min(baseDelay * (2 ^ k), capDelay)
       /\ scheduled[k] <= capDelay
       /\ \A j \in DOMAIN scheduled : j < k => scheduled[j] <= scheduled[k]
  /\ \A k \in DOMAIN timers : timers[k] <= capDelay

\* Five reconnects were scheduled without an open between them, with the
\* delays 2000, 4000, 8000, 10000 and 10000 ms.
C17_Witness ==
  /\ scheduled = <<2000, 4000, 8000, 10000, 10000>>
  /\ reconnectAttempts = 5

\* C18: never more than MAX_RECONNECT_ATTEMPTS (5) reconnects are scheduled
\* between two successful opens, and a closure after the fifth schedules
\* none: the timers and the counter are as before.
C18_ReconnectBounded ==
  [][/\ Len(scheduled') <= 5
     /\ reconnectAttempts' <= 5
     /\ Len(scheduled') = reconnectAttempts'
     /\ (SocketCloses /\ reconnectAttempts = 5) =>
          /\ timers' = timers
          /\ scheduled' = scheduled
          /\ reconnectAttempts' = 5
     /\ (SocketCloses /\ reconnectAttempts < 5) =>
          /\ Len(timers') = Len(timers) + 1
          /\ reconnectAttempts' = reconnectAttempts + 1]_vars

\* Six sockets were created and each closed without ever opening: five
\* reconnects were scheduled, the sixth closure scheduled none, and nothing
\* is pending.
C18_Witness ==
  /\ Len(sockets) = 6
  /\ \A s \in DOMAIN sockets : sockets[s] = "CLOSED"
  /\ sent = <<>>
  /\ reconnectAttempts = 5
  /\ Len(scheduled) = 5
  /\ timers = <<>>
  /\ serverWs = 0

\* The step in which serverWs.onopen of some socket runs.
SocketOpens == \E s \in DOMAIN sockets : sockets[s] = "CONNECTING" /\ sockets'[s] = "OPEN"

\* C19: serverWs.onopen sets reconnectAttempts to 0, whatever it was; the
\* closure that follows an open is the first attempt again: it schedules the
\* first delay (2000 ms) and leaves four more attempts.
C19_OpenResetsAttempts ==
  [][/\ SocketOpens => reconnectAttempts' = 0
     /\ (SocketCloses /\ reconnectAttempts = 0) =>
          /\ reconnectAttempts' = 1
          /\ timers' = Append(timers, 2000)
          /\ MAX_RECONNECT_ATTEMPTS - reconnectAttempts' = 4]_vars

\* Sockets 1 and 2 closed without opening (two reconnects scheduled), socket
\* 3 opened and then closed: the counter is 1 and the one reconnect scheduled
\* since the open has the first delay.
C19_Witness ==
  /\ sockets = <<"CLOSED", "CLOSED", "CLOSED">>
  /\ Len(sent) = 1 /\ sent[1].type = "EXTENSION_READY" /\ sent[1].sock = 3
  /\ reconnectAttempts = 1
  /\ scheduled = <<2000>>


IsEvent(m) == m.type = "CDP_EVENT"

\* C21: an event emitted while its (tab, eventName) pair has no subscriber
\* sends nothing, and a CDP_EVENT is only ever sent for the event the browser
\* emits in that very step: a subscription registered later brings no earlier
\* event.
C21_NoReplay ==
  [][/\ (EventEmitted /\ ~Subscribed(Last(emitted').tabId, Last(emitted').method))
          => sent' = sent
     /\ \A k \in NewlySent :
          IsEvent(sent'[k]) => /\ EventEmitted
                               /\ sent'[k].params = Last(emitted').params]_vars

\* Tab 1 is attached and emitted "load" while nobody was subscribed; a
\* subscription for (1, "load") was registered afterwards and answered; no
\* CDP_EVENT was ever sent.
C21_Witness ==
  /\ isAttached(1)
  /\ emitted = <<[tabId |-> 1, method |-> "load", params |-> 1]>>
  /\ Subscribed(1, "load")
  /\ \E i \in DOMAIN req :
       /\ req[i].type = "REGISTER_CDP_LISTENER" /\ req[i].tabId = 1 /\ req[i].name = "load"
       /\ ResponsesOf(req[i].id) # {}
  /\ \A k \in DOMAIN sent : ~IsEvent(sent[k])

\* C23: the CDP_EVENT messages of one (tab, eventName) pair are sent in the
\* order in which the browser emitted their events: each carries the params
\* of an emitted event of that pair, and a message sent earlier never carries
\* a later event.
C23_EventsInEmissionOrder ==
  /\ \A k \in DOMAIN sent :
       IsEvent(sent[k]) =>
         /\ sent[k].params \in DOMAIN emitted
         /\ emitted[sent[k].params].tabId = sent[k].tabId
         /\ emitted[sent[k].params].method = sent[k].method
  /\ \A k1, k2 \in DOMAIN sent :
       (/\ IsEvent(sent[k1]) /\ IsEvent(sent[k2])
        /\ sent[k1].tabId = sent[k2].tabId /\ sent[k1].method = sent[k2].method
        /\ k1 < k2)
         => sent[k1].params <= sent[k2].params

\* Two "load" events of tab 1 were both forwarded, the first before the
\* second.
C23_Witness ==
  /\ Len(emitted) = 2
  /\ emitted[1].tabId = 1 /\ emitted[2].tabId = 1
  /\ emitted[1].method = "load" /\ emitted[2].method = "load"
  /\ \E k1, k2 \in DOMAIN sent :
       /\ k1 < k2
       /\ IsEvent(sent[k1]) /\ sent[k1].params = 1
       /\ IsEvent(sent[k2]) /\ sent[k2].params = 2


\* The memberships of a registry: the (tab, eventName, listenerId) triples it
\* holds.
Members(registry) ==
  {m \in Tabs \X EventNames \X ListenerIds :
     /\ has(registry, m[1])
     /\ has(registry[m[1]], m[2])
     /\ m[3] \in registry[m[1]][m[2]]}

\* The step in which a request of the given type arrives, and its triple.
Arrives(type) == Len(req') = Len(req) + 1 /\ Last(req').type = type
Triple(f) == <<f.tabId, f.name, f.lid>>

\* C22: registering a triple adds it to the memberships and nothing else;
\* registering a member leaves the registry as it was, and so would
\* registering the triple once more.  Unregistering a triple removes it and
\* nothing else; unregistering a non-member (no entry for the tab or the
\* event name included) leaves the registry as it was.  Both answer success.
C22_SubscribeIdempotent ==
  [][/\ Arrives("REGISTER_CDP_LISTENER") =>
          LET f == Last(req') IN
          /\ Members(cdpEventListeners') = Members(cdpEventListeners) \cup {Triple(f)}
          /\ Triple(f) \in Members(cdpEventListeners) => cdpEventListeners' = cdpEventListeners
          /\ registerCDPListener(cdpEventListeners', f.tabId, f.name, f.lid) = cdpEventListeners'
          /\ f.pc = "done" /\ f.ok
          /\ sent' = sendToServer(sent, response(f, TRUE, Result("registered")))
     /\ Arrives("UNREGISTER_CDP_LISTENER") =>
          LET f == Last(req') IN
          /\ Members(cdpEventListeners') = Members(cdpEventListeners) \ {Triple(f)}
          /\ Triple(f) \notin Members(cdpEventListeners) => cdpEventListeners' = cdpEventListeners
          /\ unregisterCDPListener(cdpEventListeners', f.tabId, f.name, f.lid) = cdpEventListeners'
          /\ f.pc = "done" /\ f.ok
          /\ sent' = sendToServer(sent, response(f, TRUE, Result("unregistered")))]_vars

\* (1, "load", 1) was registered twice and the registry holds it once; then
\* listener 2, not a member of (1, "load"), was unregistered and the registry
\* is the same; all three requests were answered with success.
C22_Witness ==
  /\ Len(req) = 3
  /\ req[1].type = "REGISTER_CDP_LISTENER" /\ Triple(req[1]) = <<1, "load", 1>>
  /\ req[2].type = "REGISTER_CDP_LISTENER" /\ Triple(req[2]) = <<1, "load", 1>>
  /\ req[3].type = "UNREGISTER_CDP_LISTENER" /\ Triple(req[3]) = <<1, "load", 2>>
  /\ \A i \in DOMAIN req : req[i].ok /\ \E k \in ResponsesOf(i) : sent[k].success
  /\ Members(cdpEventListeners) = {<<1, "load", 1>>}
  /\ cdpEventListeners = registerCDPListener(EmptyMap, 1, "load", 1)


\* The messages sent on socket s, in order.
SentOn(s) == SelectSeq(sent, LAMBDA m : m.sock = s)

\* C24: on every socket the extension has sent anything on, the first
\* message sent is EXTENSION_READY; no RESPONSE, PING, CDP_EVENT or detach
\* notification precedes it.
C24_ReadyFirst ==
  \A s \in DOMAIN sockets :
    SentOn(s) # <<>> => SentOn(s)[1].type = "EXTENSION_READY"

\* The first socket carried EXTENSION_READY and then a PING, it closed, and
\* the socket of the reconnection carried EXTENSION_READY and then a PING and
\* a RESPONSE.
C24_Witness ==
  /\ Len(sockets) = 2
  /\ Len(SentOn(1)) >= 2
  /\ SentOn(1)[1].type = "EXTENSION_READY"
  /\ SentOn(1)[2].type = "PING"
  /\ Len(SentOn(2)) >= 3
  /\ SentOn(2)[1].type = "EXTENSION_READY"
  /\ \E k \in 2..Len(SentOn(2)) : SentOn(2)[k].type = "PING"
  /\ \E k \in 2..Len(SentOn(2)) : SentOn(2)[k].type = "RESPONSE"


\* C26: the step in which a PONG arrives sends nothing (no RESPONSE, neither
\* success nor the unknown-type error), ends the handler there, and leaves
\* the sessions, the subscriptions, the reconnect counter, the socket and
\* the timers as they were.
C26_PongIgnored ==
  [][Arrives("PONG") =>
       /\ sent' = sent
       /\ Last(req').pc = "done"
       /\ activeSessions' = activeSessions
       /\ cdpEventListeners' = cdpEventListeners
       /\ reconnectAttempts' = reconnectAttempts
       /\ serverWs' = serverWs /\ sockets' = sockets /\ timers' = timers]_vars

\* A subscription was registered and answered, a PING was sent, and then a
\* PONG arrived on the open socket: nothing was sent after the PING, the
\* PONG has no response, and the subscription is still there.
C26_Witness ==
  /\ Len(req) = 2
  /\ req[1].type = "REGISTER_CDP_LISTENER" /\ req[1].ok
  /\ req[2].type = "PONG" /\ req[2].pc = "done" /\ req[2].sock = 1
  /\ ResponsesOf(req[2].id) = {}
  /\ Len(sent) = 3 /\ sent[3].type = "PING"
  /\ ResponsesOf(req[1].id) = {2}
  /\ Members(cdpEventListeners) = {<<1, "load", 1>>}
  /\ sockets = <<"OPEN">> /\ serverWs = 1 /\ reconnectAttempts = 0


\* activeSessions and the browser agree on every tab: the tab is recorded as
\* attached exactly if this extension's debugger is attached to it.
SessionsMatchBrowser == \A t \in Tabs : isAttached(t) <=> dbgOwner[t] = "self"

\* C27 as stated: whenever no request handler is in flight, activeSessions
\* and the browser agree.
C27_IdleSessionsMatchBrowser == idle => SessionsMatchBrowser

\* C27, amended: whenever no request handler is in flight and every event
\* the browser has dispatched has been handled by its listener,
\* activeSessions and the browser agree.
C27_QuiescentSessionsMatchBrowser ==
  (idle /\ browserQ = <<>>) => SessionsMatchBrowser

\* The debugger was detached from outside while the chrome.debugger.detach
\* call of a DETACH_DEBUGGER request was in flight: the call failed, the
\* onDetach listener has run and sent its notification, nothing is in flight,
\* and the tab is neither attached nor recorded as attached.
C27_Witness ==
  /\ idle /\ browserQ = <<>>
  /\ \E i \in DOMAIN req :
       /\ req[i].type = "DETACH_DEBUGGER"
       /\ req[i].detachCalls = 1
       /\ ~req[i].ok
  /\ \E k \in DOMAIN sent : sent[k].type = "DEBUGGER_DETACHED" /\ sent[k].tabId = 1
  /\ ~isAttached(1) /\ dbgOwner[1] = "none" /\ tabOpen[1]


\* C28: every RESPONSE was sent on the socket its request arrived on; a run
\* that ends after its socket closed and another one opened sends nothing on
\* the new socket.
C28_ResponseOnRequestSocket ==
  \A k \in DOMAIN sent :
    IsResponse(sent[k]) =>
      \E i \in DOMAIN req : req[i].id = sent[k].id /\ req[i].sock = sent[k].sock


\* The sockets created by connectToServer that are open or connecting.
LiveSockets == {s \in DOMAIN sockets : sockets[s] \in {"OPEN", "CONNECTING"}}

\* C29: at most one socket is open or connecting, and serverWs refers to it.
C29_SingleLiveSocket ==
  /\ Cardinality(LiveSockets) <= 1
  /\ \A s \in LiveSockets : serverWs = s


\* Run i is a CLOSE_TAB for a tab with an attached session: an earlier
\* ATTACH_DEBUGGER for the tab succeeded and no earlier CLOSE_TAB closed it
\* (under SpecCloseTab nothing else ends a session).
ClosesAttachedTab(i) ==
  /\ req[i].type = "CLOSE_TAB"
  /\ \E j \in 1..(i - 1) :
       req[j].type = "ATTACH_DEBUGGER" /\ req[j].tabId = req[i].tabId /\ req[j].ok
  /\ \A k \in 1..(i - 1) :
       ~(req[k].type = "CLOSE_TAB" /\ req[k].tabId = req[i].tabId)

\* C30: the step in which a CLOSE_TAB run for a tab with an attached session
\* ends sends the success response {closed: true} of the run, and no session
\* and no subscriptions of the tab are left, whatever the order of the
\* browser's events and the continuation of closeTab.
C30_CloseAttachedTabSucceeds ==
  [][\A i \in DOMAIN req :
       (ClosesAttachedTab(i) /\ req[i].pc # "done" /\ req'[i].pc = "done") =>
         /\ req'[i].ok /\ req'[i].result = Result("closed")
         /\ sent' = sendToServer(sent, response(req[i], TRUE, Result("closed")))
         /\ ~has(activeSessions', req[i].tabId)
         /\ ~has(cdpEventListeners', req[i].tabId)]_vars


\* The step in which the receiver takes a response whose id matches no
\* pending request, and the one in which it takes a response whose id does.
ReceiverTakes == Len(received') = Len(received) + 1
UnmatchedResponseTaken ==
  /\ ReceiverTakes
  /\ Last(received').type = "RESPONSE"
  /\ Last(received').id \notin DOMAIN pending_responses
MatchedResponseTaken ==
  /\ ReceiverTakes
  /\ Last(received').id \in DOMAIN pending_responses

\* C25: a response whose id matches no pending request resolves no future
\* and leaves every pending request pending (and calls no event handler);
\* a response whose id matches resolves the future of that id with its own
\* result, removes that request alone, and leaves every other future as it
\* was.
C25_UnmatchedResponseDiscarded ==
  [][/\ UnmatchedResponseTaken =>
          /\ futures' = futures
          /\ pending_responses' = pending_responses
          /\ callbacks' = callbacks
     /\ MatchedResponseTaken =>
          LET m == Last(received') IN
          /\ futures'[m.id] = m.result
          /\ \A i \in (DOMAIN futures) \ {m.id} : futures'[i] = futures[i]
          /\ pending_responses' = delete(pending_responses, m.id)]_vars

\* Requests 1 and 2 were issued and request 1 answered; then a response
\* nobody waited for came in (a second one for request 1, or one for request
\* 3, which was never issued): request 2 stayed pending and was then
\* resolved by its own response.
C25_Witness ==
  /\ Cardinality(DOMAIN futures) = 2
  /\ Len(received) = 3
  /\ received[1] = [type |-> "RESPONSE", id |-> 1, result |-> "r1"]
  /\ received[2].type = "RESPONSE" /\ received[2].id \in {1, 3} /\ received[2].result = "r2"
  /\ received[3] = [type |-> "RESPONSE", id |-> 2, result |-> "r2"]
  /\ futures[1] = "r1" /\ futures[2] = "r2"
  /\ pending_responses = EmptyMap


\* The step in which chrome.debugger.detach of a DETACH_DEBUGGER run settles
\* with an error, and the run.
DetachFails(i) ==
  /\ req[i].type = "DETACH_DEBUGGER"
  /\ req[i].pc = "detach"
  /\ req'[i].pc = "done" /\ ~req'[i].ok

\* C32 as stated: when chrome.detach fails the failure is reported and the
\* tab is still recorded as attached.
C32_FailedDetachKeepsSession ==
  [][\A i \in DOMAIN req :
       DetachFails(i) =>
         /\ sent' = sendToServer(sent, response(req[i], FALSE, req'[i].result))
         /\ isAttached(req[i].tabId)'
         /\ cdpEventListeners' = cdpEventListeners]_vars

\* C32, amended: when chrome.debugger.detach fails, the failure is reported
\* (a failure RESPONSE with the browser's error is handed to sendToServer)
\* and the step changes neither activeSessions nor cdpEventListeners: the
\* subscriptions registered for the tab stay; the session of the tab,
\* however, is no longer recorded by then.
C32_FailedDetachChangesNothing ==
  [][\A i \in DOMAIN req :
       DetachFails(i) =>
         /\ req'[i].result.kind \in NotOursErrors
         /\ sent' = sendToServer(sent, response(req[i], FALSE, req'[i].result))
         /\ activeSessions' = activeSessions
         /\ cdpEventListeners' = cdpEventListeners
         /\ dbgOwner' = dbgOwner
         /\ ~has(activeSessions, req[i].tabId)]_vars

\* The debugger was detached from outside while the detach call of request 2
\* was in flight, the listener removed the session, a subscription was then
\* registered for the tab, and the call failed: the failure was answered and
\* the subscription is still registered.
C32_Witness ==
  /\ Len(req) = 3
  /\ req[1].type = "ATTACH_DEBUGGER" /\ req[1].ok
  /\ req[2].type = "DETACH_DEBUGGER" /\ req[2].detachCalls = 1
  /\ req[2].pc = "done" /\ ~req[2].ok
  /\ req[3].type = "REGISTER_CDP_LISTENER" /\ req[3].tabId = 1 /\ req[3].ok
  /\ \E k \in ResponsesOf(req[2].id) : ~sent[k].success
  /\ \E k \in ResponsesOf(req[3].id) : k < Len(sent)
  /\ IsResponse(Last(sent)) /\ Last(sent).id = req[2].id
  /\ Members(cdpEventListeners) # {}
  /\ ~has(activeSessions, 1)


\* C33: once the chrome.tabs.onRemoved listener has run for a tab,
\* cdpEventListeners holds no subscription for the tab, whether or not a
\* session existed for it.
C33_RemovedTabHasNoSubscriptions ==
  [][(BrowserEventHandled /\ Head(browserQ).ev = "onRemoved") =>
       ~has(cdpEventListeners', Head(browserQ).tabId)]_vars


\* No event name of the registry maps to an empty set of listener ids.
NoEmptyListenerSet ==
  \A t \in DOMAIN cdpEventListeners : \A e \in DOMAIN cdpEventListeners[t] :
    cdpEventListeners[t][e] # {}

\* At least one listener id is registered for the pair.
Registered(tab, method) ==
  \E l \in ListenerIds : <<tab, method, l>> \in Members(cdpEventListeners)

\* C34: in every state no event name of cdpEventListeners maps to an empty
\* set; and, the connection being open, the step in which the browser emits
\* an event of (tab, eventName) hands a CDP_EVENT of that event to the socket
\* if and only if at least one listener id is registered for the pair.
C34_ForwardedIffRegistered ==
  /\ []NoEmptyListenerSet
  /\ [][(EventEmitted /\ serverOpen) =>
          LET e == Last(emitted') IN
          (\E k \in NewlySent :
              /\ IsEvent(sent'[k])
              /\ sent'[k].tabId = e.tabId
              /\ sent'[k].method = e.method
              /\ sent'[k].params = e.params)
            <=> Registered(e.tabId, e.method)]_vars

\* Listener ids 1 and 2 were registered for ("load") of the attached tab 1
\* and id 1 unregistered: the event emitted then was forwarded.  Then id 2,
\* the last one, was unregistered: the event emitted after that was not, and
\* the registry holds no entry for "load".
C34_Witness ==
  /\ Len(req) = 5 /\ idle
  /\ req[1].type = "ATTACH_DEBUGGER" /\ req[1].ok
  /\ req[2].type = "REGISTER_CDP_LISTENER" /\ req[2].lid = 1
  /\ req[3].type = "REGISTER_CDP_LISTENER" /\ req[3].lid = 2
  /\ req[4].type = "UNREGISTER_CDP_LISTENER" /\ req[4].lid = 1
  /\ req[5].type = "UNREGISTER_CDP_LISTENER" /\ req[5].lid = 2
  /\ Len(emitted) = 2
  /\ \E a, b \in DOMAIN sent :
       /\ IsResponse(sent[a]) /\ sent[a].id = req[4].id
       /\ IsResponse(sent[b]) /\ sent[b].id = req[5].id
       /\ \E k \in a..b : IsEvent(sent[k]) /\ sent[k].params = 1
  /\ IsResponse(Last(sent)) /\ Last(sent).id = req[5].id
  /\ \A k \in DOMAIN sent : ~(IsEvent(sent[k]) /\ sent[k].params = 2)
  /\ ~Registered(1, "load")
  /\ Members(cdpEventListeners) = {}


\* What the extension holds for a tab: its activeSessions entry and its
\* subscription sets.
HeldFor(sessions, registry, t) ==
  <<IF has(sessions, t) THEN {sessions[t]} ELSE {},
    IF has(registry, t) THEN {registry[t]} ELSE {}>>

\* The tabs a step operates on: the tab of the request that arrives, of the
\* run that continues, of the browser event whose listener runs, and the tab
\* the browser detaches or closes.
OperatedTabs ==
  {t \in Tabs :
     \/ Len(req') = Len(req) + 1 /\ Last(req').tabId = t
     \/ \E i \in DOMAIN req : req'[i] # req[i] /\ req[i].tabId = t
     \/ BrowserEventHandled /\ Head(browserQ).tabId = t
     \/ dbgOwner'[t] # dbgOwner[t]
     \/ tabOpen'[t] # tabOpen[t]}

\* C35: a step that operates on tab A (attach, detach, register, unregister,
\* external detach, tab removal, and the listeners of the latter two) leaves
\* the activeSessions entry and the subscription sets of every other tab as
\* they were; a step operates on one tab at most.
C35_OtherTabsUntouched ==
  [][/\ Cardinality(OperatedTabs) <= 1
     /\ \A b \in Tabs \ OperatedTabs :
          HeldFor(activeSessions', cdpEventListeners', b)
            = HeldFor(activeSessions, cdpEventListeners, b)]_vars

\* Tab 2 was attached and subscribed, then tab 1 was attached and closed,
\* and both listeners of the closure have run: tab 1 has no session and tab
\* 2 has its session and its subscription.
C35_Witness ==
  /\ Len(req) = 3 /\ idle /\ browserQ = <<>>
  /\ req[1].type = "ATTACH_DEBUGGER" /\ req[1].tabId = 2 /\ req[1].ok
  /\ req[2].type = "REGISTER_CDP_LISTENER" /\ req[2].tabId = 2
  /\ req[3].type = "ATTACH_DEBUGGER" /\ req[3].tabId = 1 /\ req[3].ok
  /\ ~tabOpen[1] /\ tabOpen[2]
  /\ \E k \in DOMAIN sent :
       sent[k].type \in {"TAB_CLOSED", "DEBUGGER_DETACHED"} /\ sent[k].tabId = 1
  /\ ~has(activeSessions, 1) /\ ~has(cdpEventListeners, 1)
  /\ isAttached(2) /\ dbgOwner[2] = "self"
  /\ Members(cdpEventListeners) = {<<2, "load", 1>>}


\* Run i is a NAVIGATE with waitUntil set that ends in this step.
WaitingNavigateEnds(i) ==
  /\ req[i].type = "NAVIGATE" /\ req[i].name # ""
  /\ req[i].pc = "waiting" /\ req'[i].pc = "done"

\* C31: a NAVIGATE run with waitUntil set whose tab's navigation has
\* completed when the run ends (before its timeout has fired, that is) ends
\* with success, also when the navigation completed before waitForNavigation
\* registered its listener; a run is answered once, and a completion after
\* the timeout sends nothing.
C31_NavigateSucceedsWhenCompleted ==
  [][/\ \A i \in DOMAIN req :
          (WaitingNavigateEnds(i) /\ nav'[req[i].tabId] = "complete") => req'[i].ok
     /\ \A k \in NewlySent :
          IsResponse(sent'[k]) =>
            \A j \in DOMAIN sent' : (IsResponse(sent'[j]) /\ sent'[j].id = sent'[k].id) => j = k]_vars


=============================================================================
